---- MODULE Spec2Model ----
(***************************************************************************)
(* DocuFlow table extraction: the reconciliation service                   *)
(* (docuflow/table_extraction/service.py) as a state machine.              *)
(*                                                                         *)
(* Numbers.  confidence_score is a float in [0,1]; it is kept in           *)
(* hundredths (0.8 is 80).  A bbox coordinate is a float; it is kept as a  *)
(* whole number of 1/CoordScale units, so that fractional coordinates and  *)
(* the truncation done by int() are both present.                          *)
(***************************************************************************)
EXTENDS Integers, Sequences, FiniteSets, TLC

\* ------------------------------------------------------------------ bounds
\* resolution of a bbox coordinate: a coordinate c stands for c/CoordScale
CoordScale == 2
\* longest list an extractor returns in one service call
MaxExtracted == 2
\* longest docling_tables / rule_based_tables handed to a direct merge call
MaxDoclingIn == 2
MaxRuleIn == 2

\* --------------------------------------------------------------- data model
DOCLING_DRIVEN == "docling_driven"
RULE_BASED == "rule_based"
HYBRID == "hybrid"
TableDetectionMethod == {DOCLING_DRIVEN, RULE_BASED, HYBRID}

\* Optional[...] = None
None == "None"
\* bbox: Optional[List[float]]; the absent bbox is the empty tuple, which is
\* also how `if table.bbox:` reads an empty list
NoBbox == << >>

\* boxes used as inputs, in 1/CoordScale units, [x1, y1, x2, y2]
BoxSmall == <<0, 0, 1, 1>>
BoxPoint == <<1, 1, 1, 1>>
BoxLarge == <<0, 0, 4, 4>>
BoxBelow == <<0, 4, 4, 6>>
\* inside BoxLarge, apart from BoxSmall
BoxInner == <<2, 2, 3, 3>>
Bboxes == {NoBbox, BoxSmall, BoxPoint, BoxLarge, BoxBelow}

\* confidence scores used as inputs: below, at and above the 0.8 threshold
DoclingConfidences == {70, 80}
RuleConfidences == {70, 95}

\* what an extractor decides about a table it emits
DoclingTemplates == [confidence_score : DoclingConfidences, bbox : Bboxes]
RuleTemplates == [confidence_score : RuleConfidences, bbox : Bboxes]
ServiceTemplates ==
    { [confidence_score |-> 70, bbox |-> BoxSmall],
      [confidence_score |-> 95, bbox |-> BoxLarge] }

SeqsUpTo(S, n) == UNION { [1..k -> S] : k \in 0..n }

\* Table: the fields the service reads.  id is unique per extraction run.
Table(method, k, tpl) ==
    [ id |-> <<method, k>>,
      detection_method |-> method,
      confidence_score |-> tpl.confidence_score,
      bbox |-> tpl.bbox ]

MkTables(method, tpls) == [ k \in 1..Len(tpls) |-> Table(method, k, tpls[k]) ]

Range(s) == { s[i] : i \in 1..Len(s) }

\* ------------------------------------------------------------------- merge
\* int(x): truncation toward zero
IntPart(c) == IF c >= 0 THEN c \div CoordScale ELSE -((-c) \div CoordScale)

\* _bbox_to_key: f"{int(x1)},{int(y1)},{int(x2)},{int(y2)}"; the comma-joined
\* text is one-to-one with the tuple of the four truncated integers
BboxToKey(bbox) ==
    <<IntPart(bbox[1]), IntPart(bbox[2]), IntPart(bbox[3]), IntPart(bbox[4])>>

\* the comparison of _has_overlap, lines 153-156
RectOverlap(a, b) ==
    /\ a[1] < b[3]
    /\ a[3] > b[1]
    /\ a[2] < b[4]
    /\ a[4] > b[2]

\* _has_overlap
HasOverlap(table, existing_tables) ==
    /\ table.bbox # NoBbox
    /\ \E i \in 1..Len(existing_tables) :
          /\ existing_tables[i].bbox # NoBbox
          /\ RectOverlap(table.bbox, existing_tables[i].bbox)

HighConfidence == 80

\* list.sort(key=confidence_score, reverse=True): stable, descending
RECURSIVE InsertDesc(_, _)
InsertDesc(sorted, t) ==
    IF sorted = << >> THEN <<t>>
    ELSE IF Head(sorted).confidence_score >= t.confidence_score
         THEN <<Head(sorted)>> \o InsertDesc(Tail(sorted), t)
         ELSE <<t>> \o sorted

\* mutant: the pool is walked in the order in which it was put together
SortByConfidenceNotAtAll(s) == s

RECURSIVE SortByConfidenceDesc(_)
SortByConfidenceDesc(s) ==
    IF s = << >> THEN << >>
    ELSE InsertDesc(SortByConfidenceDesc(SubSeq(s, 1, Len(s) - 1)), s[Len(s)])

\* mutant: a table at exactly the threshold is not accepted
IsHighStrict(t) == t.confidence_score > HighConfidence

\* line 115
IsHigh(t) == t.confidence_score >= HighConfidence
\* line 121
IsLow(t) == t.confidence_score < HighConfidence

\* the loop of lines 127-135 over all_remaining, from position i on
RECURSIVE MergeWalk(_, _, _, _)
MergeWalk(all_remaining, i, merged_tables, used_regions) ==
    IF i > Len(all_remaining) THEN merged_tables
    ELSE LET table == all_remaining[i] IN
         IF table.bbox = NoBbox
         THEN MergeWalk(all_remaining, i + 1, Append(merged_tables, table),
                        used_regions)
         ELSE IF /\ BboxToKey(table.bbox) \notin used_regions
                 /\ ~HasOverlap(table, merged_tables)
              THEN MergeWalk(all_remaining, i + 1, Append(merged_tables, table),
                             used_regions \cup {BboxToKey(table.bbox)})
              ELSE MergeWalk(all_remaining, i + 1, merged_tables, used_regions)

\* lines 110-137: the merge proper
MergeBody(docling_in, rule_in) ==
    LET high == SelectSeq(docling_in, IsHigh)
        used == { BboxToKey(t.bbox) : t \in { u \in Range(high) : u.bbox # NoBbox } }
        all_remaining == SortByConfidenceDesc(SelectSeq(docling_in, IsLow) \o rule_in)
    IN  MergeWalk(all_remaining, 1, high, used)

\* mutant: no early return for an empty list
MergeTableResultsAlways(docling_in, rule_in) == MergeBody(docling_in, rule_in)

\* mutant: rule-based tables alone go through the merge proper
MergeTableResultsRuleMerged(docling_in, rule_in) ==
    IF rule_in = << >> THEN docling_in
    ELSE MergeBody(docling_in, rule_in)

\* _merge_table_results
MergeTableResults(docling_in, rule_in) ==
    IF rule_in = << >> THEN docling_in
    ELSE IF docling_in = << >> THEN rule_in
    ELSE MergeBody(docling_in, rule_in)

\* ----------------------------------------------------------------- service
\* extractor instances that can be registered, and the empty registry slot
Instances == {"e1", "e2"}
NoExtractor == "unregistered"

VARIABLES
    extractors,         \* self._extractors: method tag -> instance
    pc,                 \* position of the extract_tables call
    preferred_method,   \* argument of the call in progress
    extractor,          \* local `extractor`
    docling_tables,     \* local `docling_tables`
    rule_based_tables,  \* local `rule_based_tables`
    tables,             \* local `tables`: the value returned
    raised,             \* exception leaving extract_tables, or None
    merge_raised,       \* whether _merge_table_results raised in this call
    calls,              \* calls made since the last call boundary, in order
    extracted,          \* per tag: what extractor.extract_tables did
    verdicts,           \* per tag: what validate_table did, per table
    table,              \* a Table object handed to one of its methods or to a validator
    parsed_content,     \* the parsed document handed to an extractor
    result,             \* what the method called on `table` or `parsed_content` did
    suspended           \* the frame of a second extract_tables call waiting at an await

vars == <<extractors, pc, preferred_method, extractor, docling_tables,
          rule_based_tables, tables, raised, merge_raised, calls, extracted,
          verdicts, table, parsed_content, result, suspended>>

\* the state of the service and of its call in progress
service == <<extractors, pc, preferred_method, extractor, docling_tables,
             rule_based_tables, tables, raised, merge_raised, calls, extracted,
             verdicts>>

\* the objects the service never looks into
objects == <<table, parsed_content, result>>

locals == <<preferred_method, extractor, docling_tables, rule_based_tables,
            tables, raised, merge_raised, calls, extracted, verdicts>>

NotCalled == [status |-> "not_called", tables |-> << >>]
Raised == [status |-> "raised", tables |-> << >>]
Returned(ts) == [status |-> "returned", tables |-> ts]

\* the frame of an extract_tables call: its position and its local variables
Frame(at, pm, ext, docling, rule, ts, exc, fails, cs, outs, vds) ==
    [ pc |-> at, preferred_method |-> pm, extractor |-> ext,
      docling_tables |-> docling, rule_based_tables |-> rule, tables |-> ts,
      raised |-> exc, merge_raised |-> fails, calls |-> cs, extracted |-> outs,
      verdicts |-> vds ]

\* a call that has not started: its locals hold nothing
FreshFrame(at) ==
    Frame(at, None, NoExtractor, << >>, << >>, << >>, None, FALSE, << >>,
          [m \in TableDetectionMethod |-> NotCalled],
          [m \in TableDetectionMethod |-> << >>])

\* there is no second call
NoFrame == FreshFrame("none")

\* what an extractor invoked under a tag can do: raise, or return a list (of
\* at most one table when two calls are in progress)
ExtractOutcomes(method) ==
    {Raised} \cup
    { Returned(MkTables(method, tpls)) :
        tpls \in IF suspended = NoFrame
                 THEN SeqsUpTo(ServiceTemplates, MaxExtracted)
                 ELSE {<< >>} \cup { <<tpl>> : tpl \in ServiceTemplates } }

\* what validate_table can do for one table
Verdicts == {"true", "false", "raise"}

Call(method, inst, op) == [method |-> method, extractor |-> inst, op |-> op]
MergeCall == Call(None, "self", "_merge_table_results")
ValidateCalls(method, inst, n) == [ k \in 1..n |-> Call(method, inst, "validate_table") ]

\* mutant: a table whose validation raised is kept
RECURSIVE ValidateTablesKeepRaised(_, _)
ValidateTablesKeepRaised(ts, vs) ==
    IF ts = << >> THEN << >>
    ELSE (IF Head(vs) # "false" THEN <<Head(ts)>> ELSE << >>)
         \o ValidateTablesKeepRaised(Tail(ts), Tail(vs))

\* _validate_tables: vs[k] is the outcome of validate_table(ts[k])
RECURSIVE ValidateTables(_, _)
ValidateTables(ts, vs) ==
    IF ts = << >> THEN << >>
    ELSE (IF Head(vs) = "true" THEN <<Head(ts)>> ELSE << >>)
         \o ValidateTables(Tail(ts), Tail(vs))

Registered(reg, method) == method \in TableDetectionMethod /\ reg[method] # NoExtractor

\* mutant: the membership test is inverted
UsePreferredInverted(pm, reg) == pm # None /\ ~Registered(reg, pm)

\* line 47: `if preferred_method and preferred_method in self._extractors`
\* (an Enum member is always truthy)
UsePreferred(pm, reg) == pm # None /\ Registered(reg, pm)

\* mutant: the rule-based extractor runs whenever it is registered
ShouldRunRuleBasedAlways(docling, reg) == Registered(reg, RULE_BASED)

\* mutant: a hybrid registration counts for the fallback too
ShouldRunRuleBasedOrHybrid(docling, reg) ==
    docling = << >> /\ (Registered(reg, RULE_BASED) \/ Registered(reg, HYBRID))

\* line 72
ShouldRunRuleBased(docling, reg) == docling = << >> /\ Registered(reg, RULE_BASED)

\* mutant: only the model-driven tables survive a failed merge
MergeFallbackDoclingOnly(docling, rule) == docling

\* line 88
MergeFallback(docling, rule) == docling \o rule

\* no call in progress: the locals hold nothing
NoCall ==
    /\ preferred_method = None
    /\ extractor = NoExtractor
    /\ docling_tables = << >>
    /\ rule_based_tables = << >>
    /\ tables = << >>
    /\ raised = None
    /\ merge_raised = FALSE
    /\ calls = << >>
    /\ extracted = [m \in TableDetectionMethod |-> NotCalled]
    /\ verdicts = [m \in TableDetectionMethod |-> << >>]

\* what a method call did: the exception it raised or the value it returned
Outcome(op, exc, value) == [op |-> op, raised |-> exc, value |-> value]

\* no method has been called
NoResult == Outcome(None, None, None)

\* no Table, no document and no method result at hand
NoObjects ==
    /\ table = None
    /\ parsed_content = None
    /\ result = NoResult

Init ==
    /\ extractors = [m \in TableDetectionMethod |-> NoExtractor]
    /\ pc = "idle"
    /\ NoCall
    /\ NoObjects
    /\ suspended = NoFrame

\* mutant: a tag that is already registered keeps its extractor
RegistryAfterKeepFirst(reg, method, inst) ==
    IF reg[method] = NoExtractor THEN [reg EXCEPT ![method] = inst] ELSE reg

\* line 18: self._extractors[method] = extractor
RegistryAfter(reg, method, inst) == [reg EXCEPT ![method] = inst]

\* register_extractor(method, extractor); between two extract_tables calls
\* `calls` holds the registration made last
RegisterExtractor ==
    /\ pc = "idle"
    /\ \E method \in TableDetectionMethod, inst \in Instances :
          /\ extractors' = RegistryAfter(extractors, method, inst)
          /\ calls' = <<Call(method, inst, "register_extractor")>>
    /\ UNCHANGED <<pc, preferred_method, extractor, docling_tables,
                   rule_based_tables, tables, raised, merge_raised, extracted,
                   verdicts>>
    /\ UNCHANGED <<objects, suspended>>

\* extract_tables, lines 43-57: entry, registry check, choice of the path
ExtractTablesEntry ==
    /\ pc = "idle"
    /\ \E pm \in TableDetectionMethod \cup {None} :
          /\ preferred_method' = pm
          /\ IF \A m \in TableDetectionMethod : extractors[m] = NoExtractor
             THEN /\ raised' = "ValueError"
                  /\ pc' = "done"
                  /\ extractor' = NoExtractor
             ELSE IF UsePreferred(pm, extractors)
             THEN /\ raised' = None
                  /\ pc' = "preferred_extract"
                  /\ extractor' = extractors[pm]
             ELSE /\ raised' = None
                  /\ pc' = "docling_extract"
                  /\ extractor' = NoExtractor
    /\ docling_tables' = << >>
    /\ rule_based_tables' = << >>
    /\ tables' = << >>
    /\ merge_raised' = FALSE
    /\ calls' = << >>
    /\ extracted' = [m \in TableDetectionMethod |-> NotCalled]
    /\ verdicts' = [m \in TableDetectionMethod |-> << >>]
    /\ UNCHANGED extractors
    /\ UNCHANGED <<objects, suspended>>

\* lines 48-51: the preferred extractor runs; its exception is not caught
PreferredExtract ==
    /\ pc = "preferred_extract"
    /\ \E out \in ExtractOutcomes(preferred_method) :
          /\ extracted' = [extracted EXCEPT ![preferred_method] = out]
          /\ IF out.status = "raised"
             THEN raised' = "Exception" /\ pc' = "done" /\ tables' = tables
             ELSE raised' = raised /\ pc' = "preferred_validate" /\ tables' = out.tables
    /\ calls' = Append(calls, Call(preferred_method, extractor, "extract_tables"))
    /\ UNCHANGED <<extractors, preferred_method, extractor, docling_tables,
                   rule_based_tables, merge_raised, verdicts>>
    /\ UNCHANGED <<objects, suspended>>

\* line 52: return await self._validate_tables(tables, extractor)
PreferredValidate ==
    /\ pc = "preferred_validate"
    /\ \E vs \in [1..Len(tables) -> Verdicts] :
          /\ verdicts' = [verdicts EXCEPT ![preferred_method] = vs]
          /\ tables' = ValidateTables(tables, vs)
    /\ calls' = calls \o ValidateCalls(preferred_method, extractor, Len(tables))
    /\ pc' = "done"
    /\ UNCHANGED <<extractors, preferred_method, extractor, docling_tables,
                   rule_based_tables, raised, merge_raised, extracted>>
    /\ UNCHANGED <<objects, suspended>>

\* lines 60-65 and 67-69: the model-driven extractor, if registered
DoclingExtract ==
    /\ pc = "docling_extract"
    /\ IF Registered(extractors, DOCLING_DRIVEN)
       THEN /\ extractor' = extractors[DOCLING_DRIVEN]
            /\ calls' = Append(calls, Call(DOCLING_DRIVEN, extractors[DOCLING_DRIVEN],
                                           "extract_tables"))
            /\ \E out \in ExtractOutcomes(DOCLING_DRIVEN) :
                  /\ extracted' = [extracted EXCEPT ![DOCLING_DRIVEN] = out]
                  /\ IF out.status = "raised"
                     THEN docling_tables' = docling_tables /\ pc' = "rule_extract"
                     ELSE docling_tables' = out.tables /\ pc' = "docling_validate"
       ELSE /\ pc' = "rule_extract"
            /\ UNCHANGED <<extractor, calls, extracted, docling_tables>>
    /\ UNCHANGED <<extractors, preferred_method, rule_based_tables, tables, raised,
                   merge_raised, verdicts>>
    /\ UNCHANGED <<objects, suspended>>

\* line 66
DoclingValidate ==
    /\ pc = "docling_validate"
    /\ \E vs \in [1..Len(docling_tables) -> Verdicts] :
          /\ verdicts' = [verdicts EXCEPT ![DOCLING_DRIVEN] = vs]
          /\ docling_tables' = ValidateTables(docling_tables, vs)
    /\ calls' = calls \o ValidateCalls(DOCLING_DRIVEN, extractor, Len(docling_tables))
    /\ pc' = "rule_extract"
    /\ UNCHANGED <<extractors, preferred_method, extractor, rule_based_tables, tables,
                   raised, merge_raised, extracted>>
    /\ UNCHANGED <<objects, suspended>>

\* lines 72-77 and 79-80: the rule-based extractor, if needed and registered
RuleBasedExtract ==
    /\ pc = "rule_extract"
    /\ IF ShouldRunRuleBased(docling_tables, extractors)
       THEN /\ extractor' = extractors[RULE_BASED]
            /\ calls' = Append(calls, Call(RULE_BASED, extractors[RULE_BASED],
                                           "extract_tables"))
            /\ \E out \in ExtractOutcomes(RULE_BASED) :
                  /\ extracted' = [extracted EXCEPT ![RULE_BASED] = out]
                  /\ IF out.status = "raised"
                     THEN rule_based_tables' = rule_based_tables /\ pc' = "merge"
                     ELSE rule_based_tables' = out.tables /\ pc' = "rule_validate"
       ELSE /\ pc' = "merge"
            /\ UNCHANGED <<extractor, calls, extracted, rule_based_tables>>
    /\ UNCHANGED <<extractors, preferred_method, docling_tables, tables, raised,
                   merge_raised, verdicts>>
    /\ UNCHANGED <<objects, suspended>>

\* line 78
RuleBasedValidate ==
    /\ pc = "rule_validate"
    /\ \E vs \in [1..Len(rule_based_tables) -> Verdicts] :
          /\ verdicts' = [verdicts EXCEPT ![RULE_BASED] = vs]
          /\ rule_based_tables' = ValidateTables(rule_based_tables, vs)
    /\ calls' = calls \o ValidateCalls(RULE_BASED, extractor, Len(rule_based_tables))
    /\ pc' = "merge"
    /\ UNCHANGED <<extractors, preferred_method, extractor, docling_tables, tables,
                   raised, merge_raised, extracted>>
    /\ UNCHANGED <<objects, suspended>>

\* lines 83-90: merge, or concatenation when the merge step raises.  The call
\* site cannot tell why the step raised, so the failure is an input here.
Merge ==
    /\ pc = "merge"
    /\ \E fails \in BOOLEAN :
          /\ merge_raised' = fails
          /\ tables' = IF fails
                       THEN MergeFallback(docling_tables, rule_based_tables)
                       ELSE MergeTableResults(docling_tables, rule_based_tables)
    /\ calls' = Append(calls, MergeCall)
    /\ pc' = "done"
    /\ UNCHANGED <<extractors, preferred_method, extractor, docling_tables,
                   rule_based_tables, raised, extracted, verdicts>>
    /\ UNCHANGED <<objects, suspended>>

\* the caller has the result; the frame of the call is gone
Return ==
    /\ pc = "done"
    /\ pc' = "idle"
    /\ preferred_method' = None
    /\ extractor' = NoExtractor
    /\ docling_tables' = << >>
    /\ rule_based_tables' = << >>
    /\ tables' = << >>
    /\ raised' = None
    /\ merge_raised' = FALSE
    /\ calls' = << >>
    /\ extracted' = [m \in TableDetectionMethod |-> NotCalled]
    /\ verdicts' = [m \in TableDetectionMethod |-> << >>]
    /\ UNCHANGED extractors
    /\ UNCHANGED <<objects, suspended>>

Next ==
    \/ RegisterExtractor
    \/ ExtractTablesEntry
    \/ PreferredExtract
    \/ PreferredValidate
    \/ DoclingExtract
    \/ DoclingValidate
    \/ RuleBasedExtract
    \/ RuleBasedValidate
    \/ Merge
    \/ Return

Spec == Init /\ [][Next]_vars

TypeOK ==
    /\ extractors \in [TableDetectionMethod -> Instances \cup {NoExtractor}]
    /\ pc \in {"idle", "preferred_extract", "preferred_validate", "docling_extract",
               "docling_validate", "rule_extract", "rule_validate", "merge", "done",
               "merge_direct", "merged"}
    /\ raised \in {None, "ValueError", "Exception"}
    /\ merge_raised \in BOOLEAN

\* ------------------------------------------- _merge_table_results called alone
\* The arguments are any two lists of tables, as a direct caller can pass them.
MergeInit ==
    /\ extractors = [m \in TableDetectionMethod |-> NoExtractor]
    /\ pc = "merge_direct"
    /\ preferred_method = None
    /\ extractor = NoExtractor
    /\ \E tpls \in SeqsUpTo(DoclingTemplates, MaxDoclingIn) :
          docling_tables = MkTables(DOCLING_DRIVEN, tpls)
    /\ \E tpls \in SeqsUpTo(RuleTemplates, MaxRuleIn) :
          rule_based_tables = MkTables(RULE_BASED, tpls)
    /\ tables = << >>
    /\ raised = None
    /\ merge_raised = FALSE
    /\ calls = << >>
    /\ extracted = [m \in TableDetectionMethod |-> NotCalled]
    /\ verdicts = [m \in TableDetectionMethod |-> << >>]
    /\ NoObjects
    /\ suspended = NoFrame

\* await self._merge_table_results(docling_tables, rule_based_tables)
MergeDirect ==
    /\ pc = "merge_direct"
    /\ tables' = MergeTableResults(docling_tables, rule_based_tables)
    /\ calls' = Append(calls, MergeCall)
    /\ pc' = "merged"
    /\ UNCHANGED <<extractors, preferred_method, extractor, docling_tables,
                   rule_based_tables, raised, merge_raised, extracted, verdicts>>
    /\ UNCHANGED <<objects, suspended>>

MergeNext == MergeDirect

MergeSpec == MergeInit /\ [][MergeNext]_vars

\* ------------------------------------------------------- properties: merge
\* rectangle overlap of two boxes [x1, y1, x2, y2]: a starts before b ends and
\* ends after b starts, on both axes
Intersects(a, b) ==
    /\ a[1] < b[3] /\ b[1] < a[3]
    /\ a[2] < b[4] /\ b[2] < a[4]

HasBbox(t) == t.bbox # NoBbox
InResult(t) == t \in Range(tables)

\* C6: a model-driven table with confidence >= 0.8 and a bbox is in the merged
\* result, a rule-based table whose bbox overlaps it is not, and with exactly
\* these two inputs the result is the model-driven table alone.
C6_HighDoclingBeatsOverlappingRule ==
    pc = "merged" =>
      \A d \in Range(docling_tables), r \in Range(rule_based_tables) :
         (/\ d.confidence_score >= 80
          /\ HasBbox(d) /\ HasBbox(r)
          /\ Intersects(r.bbox, d.bbox))
         => /\ InResult(d)
            /\ ~InResult(r)
            /\ (Len(docling_tables) = 1 /\ Len(rule_based_tables) = 1
                  => tables = <<d>>)

C6_Witness ==
    /\ pc = "merged"
    /\ Len(docling_tables) = 1 /\ Len(rule_based_tables) = 1
    /\ docling_tables[1].confidence_score = 80
    /\ docling_tables[1].bbox = BoxSmall
    /\ rule_based_tables[1].confidence_score = 95
    /\ rule_based_tables[1].bbox = BoxLarge
    /\ tables = docling_tables

\* C7: one model-driven and one rule-based table whose bboxes do not overlap
\* are both in the merged result, whatever their confidences and coordinates.
C7_DisjointBothKept ==
    (/\ pc = "merged"
     /\ Len(docling_tables) = 1 /\ Len(rule_based_tables) = 1
     /\ HasBbox(docling_tables[1]) /\ HasBbox(rule_based_tables[1])
     /\ ~Intersects(docling_tables[1].bbox, rule_based_tables[1].bbox))
    => InResult(docling_tables[1]) /\ InResult(rule_based_tables[1])

\* the pooled candidates: rule-based tables and model-driven ones below 0.8
Pooled(t) == t.detection_method = RULE_BASED \/ t.confidence_score < 80

NonIncreasing(s) ==
    \A i \in 1..Len(s) - 1 : s[i].confidence_score >= s[i + 1].confidence_score

IsAccepted(t) == t.confidence_score >= 80

\* C8: for every pair of input lists, one of them empty or not, the result is
\* the model-driven tables with confidence >= 0.8 in input order, followed by
\* pooled tables in non-increasing confidence order.
C8_ResultOrdering ==
    pc = "merged" =>
      LET accepted == SelectSeq(docling_tables, IsAccepted)
          n == Len(accepted)
      IN  /\ Len(tables) >= n
          /\ SubSeq(tables, 1, n) = accepted
          /\ \A i \in n + 1..Len(tables) : Pooled(tables[i])
          /\ NonIncreasing(SubSeq(tables, n + 1, Len(tables)))

\* C9: for every pair of input lists, one of them empty or not, a pooled
\* candidate with a bbox is in the result only if no table placed before it
\* overlaps it or has its integer key; one without a bbox is in the result.
C9_PooledKeptOnlyIfFree ==
    pc = "merged" =>
      /\ \A i \in 1..Len(tables) :
            (Pooled(tables[i]) /\ HasBbox(tables[i])) =>
               \A j \in 1..i - 1 :
                  HasBbox(tables[j]) =>
                     /\ ~Intersects(tables[i].bbox, tables[j].bbox)
                     /\ BboxToKey(tables[i].bbox) # BboxToKey(tables[j].bbox)
      /\ \A t \in Range(docling_tables) \cup Range(rule_based_tables) :
            (Pooled(t) /\ ~HasBbox(t)) => InResult(t)

\* ----------------------------------------------------- properties: service
\* the tables of ts whose validation returned true, in the order of ts
RECURSIVE AcceptedOf(_, _)
AcceptedOf(ts, vs) ==
    IF Len(ts) = 0 THEN << >>
    ELSE LET n == Len(ts) IN
         AcceptedOf(SubSeq(ts, 1, n - 1), SubSeq(vs, 1, n - 1))
         \o (IF vs[n] = "true" THEN <<ts[n]>> ELSE << >>)

ValidatedOutput(m) == AcceptedOf(extracted[m].tables, verdicts[m])

NoneRegistered == \A m \in TableDetectionMethod : extractors[m] = NoExtractor
IsRegistered(m) == extractors[m] # NoExtractor

\* the call honours preferred_method / the call takes the two-strategy path
PreferredPath == preferred_method # None /\ IsRegistered(preferred_method)
DefaultPath == ~NoneRegistered /\ ~PreferredPath

\* C1: extract_tables raises to the caller if and only if no extractor is
\* registered, whatever the registered extractors do.
C1_RaisesIffNoExtractor ==
    pc = "done" => (raised # None <=> NoneRegistered)

\* C2: every returned table was produced by an extractor whose validate_table
\* returned true for it; a table whose validation returned false or raised is
\* not returned, and the call does not raise because of it.
C2_OnlyValidatedReturned ==
    pc = "done" =>
      /\ \A i \in 1..Len(tables) :
            LET t == tables[i]
                m == t.id[1]
                k == t.id[2]
            IN  /\ extracted[m].status = "returned"
                /\ k <= Len(verdicts[m])
                /\ extracted[m].tables[k] = t
                /\ verdicts[m][k] = "true"
      /\ \A m \in TableDetectionMethod : \A k \in 1..Len(verdicts[m]) :
            verdicts[m][k] # "true" =>
               /\ extracted[m].tables[k] \notin Range(tables)
               /\ raised = None

C2_Witness ==
    /\ pc = "done"
    /\ raised = None
    /\ \E m \in TableDetectionMethod :
          /\ verdicts[m] = <<"raise", "true">>
          /\ tables = <<extracted[m].tables[2]>>

\* C3: both extractors registered, no preferred_method, the model-driven
\* extract_tables raises: the call does not raise and returns the rule-based
\* output filtered by the rule-based validate_table, in its order.
C3_FallbackToRuleBased ==
    (/\ pc = "done"
     /\ preferred_method = None
     /\ IsRegistered(DOCLING_DRIVEN) /\ IsRegistered(RULE_BASED)
     /\ extracted[DOCLING_DRIVEN].status = "raised")
    => /\ raised = None
       /\ extracted[RULE_BASED].status # "not_called"
       /\ tables = ValidatedOutput(RULE_BASED)

C3_Witness ==
    /\ pc = "done"
    /\ preferred_method = None
    /\ extracted[DOCLING_DRIVEN].status = "raised"
    /\ Len(extracted[RULE_BASED].tables) = 2
    /\ verdicts[RULE_BASED] = <<"true", "true">>
    /\ tables = extracted[RULE_BASED].tables
    /\ tables[1].confidence_score < tables[2].confidence_score

\* C4: preferred_method given and registered: only that extractor is invoked,
\* nothing is merged, and what is returned is its output filtered by its own
\* validate_table, in its order.
C4_PreferredOnly ==
    (pc = "done" /\ PreferredPath) =>
      /\ \A i \in 1..Len(calls) :
            /\ calls[i].method = preferred_method
            /\ calls[i].extractor = extractors[preferred_method]
            /\ calls[i].op \in {"extract_tables", "validate_table"}
      /\ \A m \in TableDetectionMethod \ {preferred_method} :
            extracted[m] = NotCalled /\ verdicts[m] = << >>
      /\ raised = None =>
            /\ extracted[preferred_method].status = "returned"
            /\ tables = ValidatedOutput(preferred_method)

C4_Witness ==
    /\ pc = "done"
    /\ preferred_method = RULE_BASED
    /\ extractors[RULE_BASED] = "e2"
    /\ extractors[DOCLING_DRIVEN] = "e1"
    /\ verdicts[RULE_BASED] = <<"true", "false">>
    /\ tables = <<extracted[RULE_BASED].tables[1]>>

IsExtractCall(c, m) == c.method = m /\ c.op = "extract_tables"

\* C5: without a usable preferred_method the model-driven extractor, if
\* registered, is invoked first, and the rule-based extractor is invoked if
\* and only if it is registered and the validated model-driven result is
\* empty (not registered and raised included); never before the model-driven.
C5_DoclingFirstRuleIffEmpty ==
    (pc = "done" /\ DefaultPath) =>
      /\ IsRegistered(DOCLING_DRIVEN) =>
            /\ Len(calls) >= 1
            /\ calls[1] = Call(DOCLING_DRIVEN, extractors[DOCLING_DRIVEN],
                               "extract_tables")
      /\ ~IsRegistered(DOCLING_DRIVEN) =>
            \A i \in 1..Len(calls) : calls[i].method # DOCLING_DRIVEN
      /\ (\E i \in 1..Len(calls) : IsExtractCall(calls[i], RULE_BASED))
            <=> (IsRegistered(RULE_BASED) /\ ValidatedOutput(DOCLING_DRIVEN) = << >>)
      /\ \A i, j \in 1..Len(calls) :
            (calls[i].method = DOCLING_DRIVEN /\ calls[j].method = RULE_BASED)
               => i < j

C5_Witness ==
    /\ pc = "done"
    /\ preferred_method = HYBRID
    /\ ~IsRegistered(HYBRID)
    /\ Len(calls) = 5
    /\ IsExtractCall(calls[1], DOCLING_DRIVEN)
    /\ verdicts[DOCLING_DRIVEN] = <<"false">>
    /\ IsExtractCall(calls[3], RULE_BASED)
    /\ Len(tables) = 1

\* C10: when the merge step raises, extract_tables does not raise and returns
\* the validated model-driven tables followed by the validated rule-based ones.
C10_MergeFailureFallsBack ==
    (pc = "done" /\ merge_raised) =>
      /\ raised = None
      /\ tables = ValidatedOutput(DOCLING_DRIVEN) \o ValidatedOutput(RULE_BASED)

C10_Witness ==
    /\ pc = "done"
    /\ merge_raised
    /\ extracted[DOCLING_DRIVEN].status = "returned"
    /\ ValidatedOutput(DOCLING_DRIVEN) = << >>
    /\ Len(ValidatedOutput(RULE_BASED)) = 2
    /\ Len(tables) = 2

\* ---------------------------------------------------- properties: registry
IsRegistration(c) == c.op = "register_extractor"

\* C11: a register_extractor(tag, extractor) call leaves the registry mapping
\* tag to that extractor and every other tag as it was (so the most recent
\* call for a tag wins), and registering a pair that is already there changes
\* nothing.
C11_LastWriteWins ==
    [][ (pc = "idle" /\ pc' = "idle" /\ Len(calls') = 1 /\ IsRegistration(calls'[1]))
        => LET c == calls'[1] IN
           /\ extractors'[c.method] = c.extractor
           /\ \A m \in TableDetectionMethod \ {c.method} :
                 extractors'[m] = extractors[m]
           /\ (extractors[c.method] = c.extractor => extractors' = extractors) ]_vars

\* the tag "rule_based" was registered last, over an extractor already there
\* for another tag
C11_Witness ==
    /\ pc = "idle"
    /\ calls = <<Call(RULE_BASED, "e2", "register_extractor")>>
    /\ extractors[RULE_BASED] = "e2"
    /\ extractors[DOCLING_DRIVEN] = "e1"
    /\ extractors[HYBRID] = "e2"

\* ------------------------------------------ two calls on one service instance
\* the frame of the call that is running
Running ==
    Frame(pc, preferred_method, extractor, docling_tables, rule_based_tables,
          tables, raised, merge_raised, calls, extracted, verdicts)

\* where the event loop can leave a call for the other one: before its first
\* statement, at the awaits of lines 49, 52, 63, 66, 75, 78 and 84, and after
\* its return
SwitchPoints ==
    {"idle", "preferred_extract", "preferred_validate", "docling_extract",
     "docling_validate", "rule_extract", "rule_validate", "merge", "done"}

\* mutant: docling_tables is kept on the service, so the resumed call finds
\* what the other call left there
ResumeSharedDoclingTables(frame, left) ==
    [frame EXCEPT !.docling_tables = left.docling_tables]

\* what a resumed call finds: the locals of a coroutine are its own
Resume(frame, left) == frame

\* registries the two calls run against
ConcRegistries ==
    { [m \in TableDetectionMethod |-> NoExtractor],
      [m \in TableDetectionMethod |->
         IF m = DOCLING_DRIVEN THEN "e1" ELSE IF m = RULE_BASED THEN "e2"
         ELSE NoExtractor] }

ConcInit ==
    /\ extractors \in ConcRegistries
    /\ pc = "idle"
    /\ NoCall
    /\ NoObjects
    /\ suspended = FreshFrame("idle")

\* the running call waits and the other call goes on
Switch ==
    /\ suspended # NoFrame
    /\ pc \in SwitchPoints
    /\ LET resumed == Resume(suspended, Running)
       IN  /\ pc' = resumed.pc
           /\ preferred_method' = resumed.preferred_method
           /\ extractor' = resumed.extractor
           /\ docling_tables' = resumed.docling_tables
           /\ rule_based_tables' = resumed.rule_based_tables
           /\ tables' = resumed.tables
           /\ raised' = resumed.raised
           /\ merge_raised' = resumed.merge_raised
           /\ calls' = resumed.calls
           /\ extracted' = resumed.extracted
           /\ verdicts' = resumed.verdicts
    /\ suspended' = Running
    /\ UNCHANGED <<extractors, objects>>

ConcNext ==
    \/ ExtractTablesEntry
    \/ PreferredExtract
    \/ PreferredValidate
    \/ DoclingExtract
    \/ DoclingValidate
    \/ RuleBasedExtract
    \/ RuleBasedValidate
    \/ Merge
    \/ Switch

ConcSpec == ConcInit /\ [][ConcNext]_vars

\* ============================================================ Table objects
\* Texts are sequences of characters, so that strip() and the emptiness tests
\* are computed.
MaxCells == 4

\* the characters str.strip() removes (those that occur in the texts below)
Whitespace == {" ", "\t"}

RECURSIVE LStrip(_)
LStrip(text) ==
    IF text # << >> /\ Head(text) \in Whitespace THEN LStrip(Tail(text)) ELSE text

RECURSIVE RStrip(_)
RStrip(text) ==
    IF text # << >> /\ text[Len(text)] \in Whitespace
    THEN RStrip(SubSeq(text, 1, Len(text) - 1))
    ELSE text

\* str.strip()
Strip(text) == RStrip(LStrip(text))

\* TableCell: the fields that the methods of Table and the validators read
TableCell(text, row, col, rowspan, colspan, is_header) ==
    [ text |-> text, row |-> row, col |-> col, rowspan |-> rowspan,
      colspan |-> colspan, is_header |-> is_header ]

\* cells a caller can build: no field of TableCell restricts row, col or spans
CellPool ==
    { TableCell(<<"a">>, 0, 0, 1, 1, TRUE),
      TableCell(<<"b">>, 0, 1, 1, 1, FALSE),
      TableCell(<<" ">>, 1, 0, 1, 1, FALSE),
      TableCell(<<"a", " ">>, 1, 1, 1, 1, TRUE),
      TableCell(<<"a">>, 0, 0, 1, 2, FALSE),
      TableCell(<< >>, 0, 1, 2, 1, FALSE),
      TableCell(<<"b">>, 2, 0, 1, 1, FALSE),
      TableCell(<<"b">>, -1, 1, 1, 1, FALSE) }

\* (num_rows, num_cols) of the tables built
TableShapes == { <<0, 2>>, <<1, 2>>, <<2, 1>>, <<2, 2>> }

\* caption: Optional[str], as a sequence of no text or of one text
NoCaption == << >>

SomeCaption(text) == <<text>>

\* Table as a caller builds it: cells, num_rows and num_cols are independent
TableObject(num_rows, num_cols, cells, caption) ==
    [ num_rows |-> num_rows, num_cols |-> num_cols, cells |-> cells,
      caption |-> caption ]

Tables ==
    { TableObject(shape[1], shape[2], cells, NoCaption) :
        shape \in TableShapes, cells \in SeqsUpTo(CellPool, MaxCells) }

\* position in a 1-based sequence of length n of the Python list index i;
\* 0 where Python raises IndexError
PyIndex(i, n) ==
    IF 0 <= i /\ i < n THEN i + 1
    ELSE IF -n <= i /\ i < 0 THEN n + i + 1
    ELSE 0

\* line 62: grid = [['' for _ in range(num_cols)] for _ in range(num_rows)]
EmptyGrid(t) == [ r \in 1..t.num_rows |-> [ c \in 1..t.num_cols |-> << >> ] ]

\* mutant: row and column index are exchanged
PutCellTransposed(grid, cell) ==
    LET r == PyIndex(cell.col, Len(grid))
        c == IF r = 0 THEN 0 ELSE PyIndex(cell.row, Len(grid[r]))
    IN  IF r = 0 \/ c = 0
        THEN [raised |-> "IndexError", grid |-> grid]
        ELSE [raised |-> None, grid |-> [grid EXCEPT ![r][c] = cell.text]]

\* line 66: grid[cell.row][cell.col] = cell.text
PutCell(grid, cell) ==
    LET r == PyIndex(cell.row, Len(grid))
        c == IF r = 0 THEN 0 ELSE PyIndex(cell.col, Len(grid[r]))
    IN  IF r = 0 \/ c = 0
        THEN [raised |-> "IndexError", grid |-> grid]
        ELSE [raised |-> None, grid |-> [grid EXCEPT ![r][c] = cell.text]]

\* lines 65-66: the cells are written in list order
RECURSIVE FillGrid(_, _)
FillGrid(grid, cells) ==
    IF cells = << >> THEN [raised |-> None, grid |-> grid]
    ELSE LET put == PutCell(grid, Head(cells))
         IN  IF put.raised # None THEN put ELSE FillGrid(put.grid, Tail(cells))

\* Table.to_dict_format
ToDictFormat(t) ==
    LET filled == FillGrid(EmptyGrid(t), t.cells)
    IN  IF filled.raised # None
        THEN Outcome("to_dict_format", filled.raised, None)
        ELSE Outcome("to_dict_format", None, filled.grid)

\* ---------------------------------------------------------- Table.to_markdown
\* str.join
RECURSIVE JoinWith(_, _)
JoinWith(sep, parts) ==
    IF parts = << >> THEN << >>
    ELSE IF Len(parts) = 1 THEN parts[1]
    ELSE parts[1] \o sep \o JoinWith(sep, Tail(parts))

\* lines 79-82: next((cell.row for cell in self.cells if cell.is_header), 0)
RECURSIVE HeaderRow(_)
HeaderRow(cells) ==
    IF cells = << >> THEN 0
    ELSE IF Head(cells).is_header THEN Head(cells).row
    ELSE HeaderRow(Tail(cells))

\* line 89: f"**{self.caption}**\n"
CaptionLine(caption) == <<"*", "*">> \o caption[1] \o <<"*", "*", "\n">>

\* line 93: "| " + " | ".join(str(cell) for cell in row) + " |"
RowLine(row) == <<"|", " ">> \o JoinWith(<<" ", "|", " ">>, row) \o <<" ", "|">>

\* line 97: "|" + "|".join("---" for _ in row) + "|"
SeparatorLine(row) ==
    <<"|">> \o JoinWith(<<"|">>, [c \in 1..Len(row) |-> <<"-", "-", "-">>]) \o <<"|">>

\* lines 92-97: for i, row in enumerate(grid); i is 0-based, k = i + 1
RECURSIVE RowLines(_, _, _)
RowLines(grid, k, header_row) ==
    IF k > Len(grid) THEN << >>
    ELSE <<RowLine(grid[k])>>
         \o (IF k - 1 = header_row THEN <<SeparatorLine(grid[k])>> ELSE << >>)
         \o RowLines(grid, k + 1, header_row)

\* `if self.caption`: None and the empty string are false
Truthy(caption) == caption # NoCaption /\ caption[1] # << >>

\* Table.to_markdown
ToMarkdown(t) ==
    IF t.cells = << >> THEN Outcome("to_markdown", None, << >>)
    ELSE LET grid == ToDictFormat(t)
             header_row == HeaderRow(t.cells)
             md_lines ==
                 (IF Truthy(t.caption) THEN <<CaptionLine(t.caption)>> ELSE << >>)
                 \o RowLines(grid.value, 1, header_row)
         IN  IF grid.raised # None THEN Outcome("to_markdown", grid.raised, None)
             ELSE Outcome("to_markdown", None, JoinWith(<<"\n">>, md_lines))

\* ------------------------------------------------- validate_table, both kinds
\* `cell.row < 0 or cell.row >= table.num_rows or cell.col < 0 or ...` is false
AnchorInside(cell, t) ==
    ~(cell.row < 0 \/ cell.row >= t.num_rows \/ cell.col < 0 \/ cell.col >= t.num_cols)

\* sum(1 for cell in table.cells if cell.text.strip())
NonEmptyCells(cells) ==
    Cardinality({ k \in 1..Len(cells) : Strip(cells[k].text) # << >> })

\* non_empty_cells / len(table.cells) < 0.5
TooEmpty(cells) == 2 * NonEmptyCells(cells) < Len(cells)

\* rule_based.py lines 511-513: rows.setdefault(cell.row, []).append(cell);
\* the length of each list is all that is read afterwards
RowLengths(cells) ==
    [ r \in { cells[k].row : k \in 1..Len(cells) } |->
        Cardinality({ k \in 1..Len(cells) : cells[k].row = r }) ]

\* RuleBasedTableExtractor.validate_table; no statement of the try block can
\* raise for a Table whose fields have their declared types
RuleBasedValidateTable(t) ==
    LET rows == RowLengths(t.cells)
        verdict ==
            IF t.cells = << >> THEN FALSE
            ELSE IF t.num_rows < 2 \/ t.num_cols < 2 THEN FALSE
            ELSE IF \E k \in 1..Len(t.cells) : ~AnchorInside(t.cells[k], t) THEN FALSE
            ELSE IF TooEmpty(t.cells) THEN FALSE
            ELSE IF ~(\A r \in DOMAIN rows : rows[r] = t.num_cols) THEN FALSE
            ELSE IF DOMAIN rows # 0..(t.num_rows - 1) THEN FALSE
            ELSE TRUE
    IN  Outcome("rule_based.validate_table", None, verdict)

\* ai_driven.py lines 414-415: the positions a cell visits, in visiting order
CellPositions(cell) ==
    IF cell.rowspan <= 0 \/ cell.colspan <= 0 THEN << >>
    ELSE [ k \in 1..(cell.rowspan * cell.colspan) |->
             << cell.row + ((k - 1) \div cell.colspan),
                cell.col + ((k - 1) % cell.colspan) >> ]

RECURSIVE VisitedPositions(_)
VisitedPositions(cells) ==
    IF cells = << >> THEN << >>
    ELSE CellPositions(Head(cells)) \o VisitedPositions(Tail(cells))

\* ai_driven.py lines 416-418: grid[r][c] is read, then set
RECURSIVE OverlapWalk(_, _, _, _)
OverlapWalk(occupied, positions, num_rows, num_cols) ==
    IF positions = << >> THEN "true"
    ELSE LET r == PyIndex(Head(positions)[1], num_rows)
             c == PyIndex(Head(positions)[2], num_cols)
         IN  IF r = 0 \/ c = 0 THEN "IndexError"
             ELSE IF <<r, c>> \in occupied THEN "false"
             ELSE OverlapWalk(occupied \cup {<<r, c>>}, Tail(positions),
                              num_rows, num_cols)

\* mutant: only the anchor position of each cell is visited
VerifyNoCellOverlapAnchorsOnly(t) ==
    OverlapWalk({}, [ k \in 1..Len(t.cells) |-> <<t.cells[k].row, t.cells[k].col>> ],
                t.num_rows, t.num_cols)

\* DoclingTableExtractor._verify_no_cell_overlap
VerifyNoCellOverlap(t) ==
    OverlapWalk({}, VisitedPositions(t.cells), t.num_rows, t.num_cols)

\* DoclingTableExtractor.validate_table: whatever the try block raises becomes
\* False at line 406
DoclingValidateTable(t) ==
    LET body ==
            IF t.num_rows < 1 \/ t.num_cols < 2 THEN "false"
            ELSE IF \E k \in 1..Len(t.cells) : ~AnchorInside(t.cells[k], t) THEN "false"
            ELSE IF TooEmpty(t.cells) THEN "false"
            ELSE VerifyNoCellOverlap(t)
    IN  IF t.cells = << >> THEN Outcome("docling.validate_table", None, FALSE)
        ELSE Outcome("docling.validate_table", None, body = "true")

\* ------------------------------------------------ the methods called alone
TableInit ==
    /\ extractors = [m \in TableDetectionMethod |-> NoExtractor]
    /\ pc = "table"
    /\ NoCall
    /\ table \in Tables
    /\ parsed_content = None
    /\ result = NoResult
    /\ suspended = NoFrame

\* table.to_dict_format()
ToDictFormatCall ==
    /\ pc = "table"
    /\ result' = ToDictFormat(table)
    /\ UNCHANGED <<service, suspended, table, parsed_content>>

\* await RuleBasedTableExtractor().validate_table(table)
RuleBasedValidateCall ==
    /\ pc = "table"
    /\ result' = RuleBasedValidateTable(table)
    /\ UNCHANGED <<service, suspended, table, parsed_content>>

\* await DoclingTableExtractor().validate_table(table)
DoclingValidateCall ==
    /\ pc = "table"
    /\ result' = DoclingValidateTable(table)
    /\ UNCHANGED <<service, suspended, table, parsed_content>>

TableNext ==
    \/ ToDictFormatCall
    \/ RuleBasedValidateCall
    \/ DoclingValidateCall

TableSpec == TableInit /\ [][TableNext]_vars

\* ---------------------------------------------------- to_markdown called alone
MaxMarkdownCells == 3

\* captions a caller can give: none, the empty string, a text
Captions == { NoCaption, SomeCaption(<< >>), SomeCaption(<<"T">>) }

MarkdownTables ==
    { TableObject(shape[1], shape[2], cells, caption) :
        shape \in TableShapes, cells \in SeqsUpTo(CellPool, MaxMarkdownCells),
        caption \in Captions }

MarkdownInit ==
    /\ extractors = [m \in TableDetectionMethod |-> NoExtractor]
    /\ pc = "markdown"
    /\ NoCall
    /\ table \in MarkdownTables
    /\ parsed_content = None
    /\ result = NoResult
    /\ suspended = NoFrame

\* table.to_markdown()
ToMarkdownCall ==
    /\ pc = "markdown"
    /\ result' = ToMarkdown(table)
    /\ UNCHANGED <<service, suspended, table, parsed_content>>

MarkdownNext == ToMarkdownCall

MarkdownSpec == MarkdownInit /\ [][MarkdownNext]_vars

\* ------------------------------------------------- properties: Table objects
Called(op) == result.op = op

CellIndexes(t) == 1..Len(t.cells)

\* the grid positions of a table, 0-based
GridPositions(t) == (0..(t.num_rows - 1)) \X (0..(t.num_cols - 1))

\* the positions a cell occupies
Occupied(cell) ==
    { <<cell.row + i, cell.col + j>> :
        i \in 0..(cell.rowspan - 1), j \in 0..(cell.colspan - 1) }

CellsAt(t, pos) == { k \in CellIndexes(t) : <<t.cells[k].row, t.cells[k].col>> = pos }

\* all cells in bounds, without spans, at pairwise distinct positions
PlainTable(t) ==
    /\ \A k \in CellIndexes(t) :
          /\ <<t.cells[k].row, t.cells[k].col>> \in GridPositions(t)
          /\ t.cells[k].rowspan = 1 /\ t.cells[k].colspan = 1
    /\ \A pos \in GridPositions(t) : Cardinality(CellsAt(t, pos)) <= 1

\* C16: for a table whose cells are in bounds, span one position each and sit
\* at distinct positions, to_dict_format returns num_rows rows of num_cols
\* entries; the entry at [r][c] is the text of the cell at (r, c), and the
\* empty text where there is no such cell.
C16_GridReproducesCells ==
    (Called("to_dict_format") /\ PlainTable(table))
    => /\ result.raised = None
       /\ Len(result.value) = table.num_rows
       /\ \A r \in 1..table.num_rows : Len(result.value[r]) = table.num_cols
       /\ \A pos \in GridPositions(table) :
             LET entry == result.value[pos[1] + 1][pos[2] + 1]
             IN  IF CellsAt(table, pos) = {} THEN entry = << >>
                 ELSE \A k \in CellsAt(table, pos) : entry = table.cells[k].text

\* a 2 x 2 table with three plain cells, one position left unfilled
C16_Witness ==
    /\ Called("to_dict_format")
    /\ PlainTable(table)
    /\ table.num_rows = 2 /\ table.num_cols = 2
    /\ Len(table.cells) = 3
    /\ result.value = << << <<"a">>, <<"b">> >>, << << >>, <<"a", " ">> >> >>

\* text.split(ch)
RECURSIVE SplitOn(_, _)
SplitOn(text, ch) ==
    IF text = << >> THEN << << >> >>
    ELSE LET rest == SplitOn(Tail(text), ch)
         IN  IF Head(text) = ch THEN << << >> >> \o rest
             ELSE << <<Head(text)>> \o rest[1] >> \o Tail(rest)

\* what a line of the markdown text is
LineKind(line) ==
    IF line = << >> THEN "blank"
    ELSE IF Len(line) >= 4 /\ line[1] = "*" /\ line[2] = "*" THEN "caption"
    ELSE IF /\ \A k \in 1..Len(line) : line[k] \in {"|", "-"}
            /\ \E k \in 1..Len(line) : line[k] = "-" THEN "separator"
    ELSE IF line[1] = "|" /\ line[Len(line)] = "|" THEN "row"
    ELSE "other"

\* the lines of a markdown text, blank lines left out
MarkdownLines(text) == SelectSeq(SplitOn(text, "\n"), LAMBDA line : line # << >>)

\* the entries of a pipe-delimited line, without the padding spaces
Fields(line) ==
    LET parts == SplitOn(line, "|")
    IN  [ c \in 1..(Len(parts) - 2) |-> SubSeq(parts[c + 1], 2, Len(parts[c + 1]) - 1) ]

\* the lowest row index that holds a cell flagged is_header, 0 if there is none
LowestHeaderRow(t) ==
    LET flagged == { t.cells[k].row : k \in { i \in CellIndexes(t) : t.cells[i].is_header } }
    IN  IF flagged = {} THEN 0
        ELSE CHOOSE r \in flagged : \A q \in flagged : r <= q

\* the kinds of the lines the text is to have
ExpectedKinds(t) ==
    LET c == IF Truthy(t.caption) THEN 1 ELSE 0
        h == LowestHeaderRow(t)
    IN  [ k \in 1..(c + t.num_rows + 1) |->
            IF k <= c THEN "caption"
            ELSE IF k - c = h + 2 THEN "separator"
            ELSE "row" ]

AnchorsInGrid(t) ==
    \A k \in CellIndexes(t) : <<t.cells[k].row, t.cells[k].col>> \in GridPositions(t)

\* C17: for a table with at least one cell, all cells anchored in the grid,
\* to_markdown returns a caption line if there is a caption, then one
\* pipe-delimited line per grid row in row order, and exactly one separator
\* line, directly after the lowest row that holds a cell flagged is_header
\* (after row 0 if no cell is flagged), whatever the order of the cells list.
C17_SeparatorAfterFirstHeaderRow ==
    (Called("to_markdown") /\ table.cells # << >> /\ AnchorsInGrid(table))
    => /\ result.raised = None
       /\ LET lines == MarkdownLines(result.value)
              rows == SelectSeq(lines, LAMBDA line : LineKind(line) = "row")
          IN  /\ [ k \in 1..Len(lines) |-> LineKind(lines[k]) ] = ExpectedKinds(table)
              /\ Len(rows) = table.num_rows
              /\ \A r \in 1..Len(rows) : Fields(rows[r]) = ToDictFormat(table).value[r]

\* C18: a table that the rule-based validate_table accepts has num_rows >= 2,
\* num_cols >= 2 and exactly one cell at every grid position.
C18_AcceptedIsCompleteGrid ==
    (Called("rule_based.validate_table") /\ result.value)
    => /\ table.num_rows >= 2
       /\ table.num_cols >= 2
       /\ \A pos \in GridPositions(table) : Cardinality(CellsAt(table, pos)) = 1

NonBlank(text) == \E k \in 1..Len(text) : text[k] \notin Whitespace

\* the conditions under which the model-driven validator is to accept
DoclingAcceptable(t) ==
    /\ Len(t.cells) >= 1
    /\ t.num_rows >= 1
    /\ t.num_cols >= 2
    /\ \A k \in CellIndexes(t) :
          /\ <<t.cells[k].row, t.cells[k].col>> \in GridPositions(t)
          /\ Occupied(t.cells[k]) \subseteq GridPositions(t)
    /\ 2 * Cardinality({ k \in CellIndexes(t) : NonBlank(t.cells[k].text) }) >= Len(t.cells)
    /\ \A k1, k2 \in CellIndexes(t) :
          k1 # k2 => Occupied(t.cells[k1]) \cap Occupied(t.cells[k2]) = {}

\* C19: the model-driven validate_table raises nothing, leaves the table as it
\* was, and returns true exactly when the table has a cell, num_rows >= 1,
\* num_cols >= 2, every anchor and footprint inside the grid, at least half of
\* the cells with non-blank text, and no position covered by two cells.
C19_DoclingValidateExact ==
    [][ result'.op = "docling.validate_table"
        => /\ table' = table
           /\ result'.raised = None
           /\ result'.value = DoclingAcceptable(table) ]_vars

\* accepted: a spanning cell beside a plain one; and the same validator has
\* a table to refuse for a footprint that leaves the grid
C19_Witness ==
    /\ Called("docling.validate_table")
    /\ result.value
    /\ table.num_rows = 2 /\ table.num_cols = 2
    /\ \E k \in CellIndexes(table) : table.cells[k].rowspan = 2
    /\ Len(table.cells) >= 2

\* ================================================= RuleBasedTableExtractor
\* Python computes the scores below in floating point; here they are exact
\* fractions n/d in lowest terms with d > 0.
Abs(x) == IF x < 0 THEN -x ELSE x

RECURSIVE GCD(_, _)
GCD(a, b) == IF b = 0 THEN a ELSE GCD(b, a % b)

Rat(n, d) ==
    LET g == GCD(Abs(n), Abs(d))
        sign == IF d < 0 THEN -1 ELSE 1
    IN  [n |-> (sign * n) \div g, d |-> (sign * d) \div g]

Int2Rat(i) == [n |-> i, d |-> 1]
RAdd(a, b) == Rat(a.n * b.d + b.n * a.d, a.d * b.d)
RSub(a, b) == Rat(a.n * b.d - b.n * a.d, a.d * b.d)
RMul(a, b) == Rat(a.n * b.n, a.d * b.d)
\* a / b for b # 0
RDiv(a, b) == Rat(a.n * b.d, a.d * b.n)
RLess(a, b) == a.n * b.d < b.n * a.d
RZero == Int2Rat(0)
ROne == Int2Rat(1)
\* max(0.0, a)
RClamp(a) == IF RLess(a, RZero) THEN RZero ELSE a

RECURSIVE RSum(_)
RSum(xs) == IF xs = << >> THEN RZero ELSE RAdd(Head(xs), RSum(Tail(xs)))

\* sum(xs) / len(xs), for a non-empty xs
RMean(xs) == RDiv(RSum(xs), Int2Rat(Len(xs)))

\* sum((x - avg) ** 2 for x in xs) / len(xs)
RVariance(xs) ==
    LET avg == RMean(xs)
    IN  RMean([ k \in 1..Len(xs) |-> RMul(RSub(xs[k], avg), RSub(xs[k], avg)) ])

IntsToRats(xs) == [ k \in 1..Len(xs) |-> Int2Rat(xs[k]) ]

\* order of Python tuples of numbers of the same length
RECURSIVE TupleLess(_, _)
TupleLess(k1, k2) ==
    IF k1 = << >> THEN FALSE
    ELSE IF Head(k1) # Head(k2) THEN Head(k1) < Head(k2)
    ELSE TupleLess(Tail(k1), Tail(k2))

\* the sort keys in use: key(b) is a tuple of coordinates of b["bbox"]
SortKey(key, b) ==
    IF key = "top_left" THEN <<b.bbox[2], b.bbox[1]>>
    ELSE <<b.bbox[2]>>

\* sorted(seq, key=...): stable
RECURSIVE InsertSorted(_, _, _)
InsertSorted(sorted, x, key) ==
    IF sorted = << >> THEN <<x>>
    ELSE IF TupleLess(SortKey(key, x), SortKey(key, Head(sorted))) THEN <<x>> \o sorted
    ELSE <<Head(sorted)>> \o InsertSorted(Tail(sorted), x, key)

RECURSIVE SortedBy(_, _)
SortedBy(seq, key) ==
    IF seq = << >> THEN << >>
    ELSE InsertSorted(SortedBy(SubSeq(seq, 1, Len(seq) - 1), key), seq[Len(seq)], key)

\* bbox = [x1, y1, x2, y2]
X1(b) == b.bbox[1]
Y1(b) == b.bbox[2]
X2(b) == b.bbox[3]
Y2(b) == b.bbox[4]

\* str.lower() on the characters that occur in the texts of the documents
Lower(text) == [ k \in 1..Len(text) |-> IF text[k] = "T" THEN "t" ELSE text[k] ]

StartsWith(text, prefix) ==
    Len(text) >= Len(prefix) /\ SubSeq(text, 1, Len(prefix)) = prefix

TablePrefix == <<"t", "a", "b", "l", "e", " ">>

\* lines 119-120: text.startswith("table ") and ":" in text
LooksLikeCaption(element) ==
    LET text == Lower(Strip(element.text))
    IN  StartsWith(text, TablePrefix) /\ ":" \in Range(text)

\* lines 124-129
\* a missing "bbox" is NoBbox in the element and [0, 0, 0, 0] in the block
TextInfo(element) ==
    [ text |-> element.text,
      bbox |-> IF element.bbox = NoBbox THEN <<0, 0, 0, 0>> ELSE element.bbox,
      font |-> element.font,
      font_size |-> element.font_size ]

\* _get_text_blocks
GetTextBlocks(layout) ==
    LET kept == SelectSeq(layout.elements,
                          LAMBDA e : e.type = "text" /\ ~LooksLikeCaption(e))
    IN  SortedBy([ k \in 1..Len(kept) |-> TextInfo(kept[k]) ], "top_left")

YTolerance == 5

\* mutant: the tolerance is measured from the block added last
RECURSIVE GroupWalkDrifting(_, _, _, _)
GroupWalkDrifting(rows, current_row, current_y, rest) ==
    IF rest = << >> THEN Append(rows, current_row)
    ELSE LET block == Head(rest)
         IN  IF Abs(Y1(block) - current_y) <= YTolerance
             THEN GroupWalkDrifting(rows, Append(current_row, block), Y1(block),
                                    Tail(rest))
             ELSE GroupWalkDrifting(Append(rows, current_row), <<block>>, Y1(block),
                                    Tail(rest))

\* lines 149-159
RECURSIVE GroupWalk(_, _, _, _)
GroupWalk(rows, current_row, current_y, rest) ==
    IF rest = << >> THEN Append(rows, current_row)
    ELSE LET block == Head(rest)
         IN  IF Abs(Y1(block) - current_y) <= YTolerance
             THEN GroupWalk(rows, Append(current_row, block), current_y, Tail(rest))
             ELSE GroupWalk(Append(rows, current_row), <<block>>, Y1(block), Tail(rest))

\* _group_blocks_into_rows
GroupBlocksIntoRows(blocks) ==
    IF blocks = << >> THEN << >>
    ELSE LET sorted_blocks == SortedBy(blocks, "top")
         IN  GroupWalk(<< >>, <<sorted_blocks[1]>>, Y1(sorted_blocks[1]),
                       Tail(sorted_blocks))

MinCells == 2
MaxVariance == Rat(1, 5)

\* lines 183-185: space = row[i + 1]["bbox"][0] - row[i]["bbox"][2]
Spaces(row) == [ i \in 1..(Len(row) - 1) |-> X1(row[i + 1]) - X2(row[i]) ]

Fonts(blocks) == { blocks[k].font : k \in 1..Len(blocks) }
FontSizes(blocks) == { blocks[k].font_size : k \in 1..Len(blocks) }

\* _is_potential_table_row: "true", "false", or the exception of line 193
IsPotentialTableRow(row) ==
    IF Len(row) < MinCells THEN "false"
    ELSE LET spaces == IntsToRats(Spaces(row))
             avg_space == RMean(spaces)
             variance == RVariance(spaces)
         IN  IF avg_space = RZero THEN "ZeroDivisionError"
             ELSE IF RLess(MaxVariance, RDiv(variance, avg_space)) THEN "false"
             ELSE IF Cardinality(Fonts(row)) <= 2 /\ Cardinality(FontSizes(row)) <= 2
                  THEN "true" ELSE "false"

RECURSIVE Flatten(_)
Flatten(rows) == IF rows = << >> THEN << >> ELSE Head(rows) \o Flatten(Tail(rows))

SetMin(S) == CHOOSE x \in S : \A y \in S : x <= y
SetMax(S) == CHOOSE x \in S : \A y \in S : x >= y

\* _calculate_structure_confidence
StructureConfidence(rows) ==
    LET row_lengths == IntsToRats([ k \in 1..Len(rows) |-> Len(rows[k]) ])
        avg_length == RMean(row_lengths)
    IN  IF rows = << >> THEN RZero
        ELSE IF RLess(avg_length, Int2Rat(2)) THEN RZero
        ELSE RClamp(RSub(ROne, RDiv(RVariance(row_lengths), avg_length)))

AlignmentTolerance == 50

\* lines 290-298: the score of one row against the first row
AlignmentScore(pos, reference_pos) ==
    IF Len(pos) # Len(reference_pos) THEN RZero
    ELSE LET diffs == IntsToRats([ k \in 1..Len(pos) |-> Abs(pos[k] - reference_pos[k]) ])
         IN  RClamp(RSub(ROne, RDiv(RMean(diffs), Int2Rat(AlignmentTolerance))))

\* _calculate_alignment_confidence
AlignmentConfidence(rows) ==
    LET col_positions == [ r \in 1..Len(rows) |->
                             [ k \in 1..Len(rows[r]) |-> X1(rows[r][k]) ] ]
        alignment_scores == [ r \in 1..(Len(rows) - 1) |->
                                AlignmentScore(col_positions[r + 1], col_positions[1]) ]
    IN  IF rows = << >> THEN RZero
        ELSE IF alignment_scores = << >> THEN RZero
        ELSE RMean(alignment_scores)

Bool2Int(b) == IF b THEN 1 ELSE 0

\* mutant: a header font size that the body does not have earns nothing
FormatConfidenceFontOnly(rows) ==
    LET body == Flatten(Tail(rows))
        format_diff_score == Rat(Bool2Int(Fonts(rows[1]) \ Fonts(body) # {}), 2)
        body_consistency ==
            Rat(Bool2Int(Cardinality(Fonts(body)) <= 2)
                + Bool2Int(Cardinality(FontSizes(body)) <= 2), 2)
    IN  IF rows = << >> THEN RZero
        ELSE RDiv(RAdd(format_diff_score, body_consistency), Int2Rat(2))

\* _calculate_format_confidence
FormatConfidence(rows) ==
    LET body == Flatten(Tail(rows))
        format_diff_score ==
            Rat(Bool2Int(Fonts(rows[1]) \ Fonts(body) # {})
                + Bool2Int(FontSizes(rows[1]) \ FontSizes(body) # {}), 2)
        body_consistency ==
            Rat(Bool2Int(Cardinality(Fonts(body)) <= 2)
                + Bool2Int(Cardinality(FontSizes(body)) <= 2), 2)
    IN  IF rows = << >> THEN RZero
        ELSE RDiv(RAdd(format_diff_score, body_consistency), Int2Rat(2))

\* lines 347-353: the text lengths of column col_idx (1-based here)
ColumnLengths(rows, col_idx) ==
    LET having == SelectSeq(rows, LAMBDA row : col_idx <= Len(row))
    IN  [ k \in 1..Len(having) |-> Len(having[k][col_idx].text) ]

\* lines 363-365
ColumnScore(lengths) ==
    LET ls == IntsToRats(lengths)
    IN  RClamp(RSub(ROne, RDiv(RVariance(ls), RAdd(RMean(ls), ROne))))

\* _calculate_content_confidence
ContentConfidence(rows) ==
    LET col_scores == [ c \in 1..Len(rows[1]) |-> ColumnScore(ColumnLengths(rows, c)) ]
    IN  IF rows = << >> THEN RZero
        ELSE IF col_scores = << >> THEN RZero
        ELSE RMean(col_scores)

\* _calculate_region_confidence
RegionConfidence(rows) ==
    IF rows = << >> THEN RZero
    ELSE RMean(<< StructureConfidence(rows), AlignmentConfidence(rows),
                  FormatConfidence(rows), ContentConfidence(rows) >>)

\* _create_region_from_rows
CreateRegionFromRows(rows) ==
    LET blocks == Range(Flatten(rows))
    IN  [ type |-> "table",
          bbox |-> << SetMin({ X1(b) : b \in blocks }), SetMin({ Y1(b) : b \in blocks }),
                      SetMax({ X2(b) : b \in blocks }), SetMax({ Y2(b) : b \in blocks }) >>,
          rows |-> rows,
          confidence |-> RegionConfidence(rows) ]

\* mutant: a run of one row becomes a region too
CloseRegionSingleRow(regions, current_region) ==
    IF Len(current_region) >= 1
    THEN Append(regions, CreateRegionFromRows(current_region))
    ELSE regions

\* lines 101-103 and 107-109: a run of at least two rows becomes a region
CloseRegion(regions, current_region) ==
    IF Len(current_region) >= 2
    THEN Append(regions, CreateRegionFromRows(current_region))
    ELSE regions

\* lines 95-111
RECURSIVE RegionWalk(_, _, _)
RegionWalk(regions, current_region, rows) ==
    IF rows = << >>
    THEN [raised |-> None, regions |-> CloseRegion(regions, current_region)]
    ELSE LET table_like == IsPotentialTableRow(Head(rows))
         IN  IF table_like \notin {"true", "false"}
             THEN [raised |-> table_like, regions |-> << >>]
             ELSE IF table_like = "true"
             THEN RegionWalk(regions, Append(current_region, Head(rows)), Tail(rows))
             ELSE IF current_region # << >>
             THEN RegionWalk(CloseRegion(regions, current_region), << >>, Tail(rows))
             ELSE RegionWalk(regions, current_region, Tail(rows))

\* RuleBasedTableExtractor._find_table_regions
RuleBasedFindTableRegions(page_content) ==
    LET text_blocks == GetTextBlocks(page_content.layout)
    IN  IF text_blocks = << >> THEN [raised |-> None, regions |-> << >>]
        ELSE RegionWalk(<< >>, << >>, GroupBlocksIntoRows(text_blocks))

\* lines 433-445: TableCell of a block; bbox is metadata["bbox"]
BlockCell(block, row_idx, col_idx) ==
    [ text |-> Strip(block.text), row |-> row_idx, col |-> col_idx, rowspan |-> 1,
      colspan |-> 1, is_header |-> row_idx = 0, bbox |-> block.bbox ]

\* mutant: every cell of a row gets column 0
RowCellsFirstColumn(row, row_idx) ==
    [ k \in 1..Len(row) |-> BlockCell(row[k], row_idx, 0) ]

\* lines 432-446: the cells of one row
RowCells(row, row_idx) ==
    [ k \in 1..Len(row) |-> BlockCell(row[k], row_idx, k - 1) ]

\* RuleBasedTableExtractor._extract_cells
RuleBasedExtractCells(region) ==
    LET rows == region.rows
    IN  [ cells |-> Flatten([ r \in 1..Len(rows) |-> RowCells(rows[r], r - 1) ]),
          num_rows |-> Len(rows),
          num_cols |-> SetMax({ Len(rows[r]) : r \in 1..Len(rows) }) ]

NearbyThreshold == 50
CaptionMaxLen == 200

\* _is_nearby
IsNearby(table_bbox, text_bbox) ==
    \/ Abs(table_bbox[2] - text_bbox[4]) < NearbyThreshold
    \/ Abs(table_bbox[4] - text_bbox[2]) < NearbyThreshold

\* lines 462-466
IsCaptionFor(element, bbox) ==
    /\ element.type = "text"
    /\ LET text == Lower(Strip(element.text))
       IN  StartsWith(text, TablePrefix) /\ Len(text) < CaptionMaxLen
    /\ element.bbox # NoBbox
    /\ IsNearby(bbox, element.bbox)

\* RuleBasedTableExtractor._extract_caption: the first matching element
RuleBasedExtractCaption(region, page_content) ==
    LET matching == SelectSeq(page_content.layout.elements,
                              LAMBDA e : IsCaptionFor(e, region.bbox))
    IN  IF matching = << >> THEN NoCaption ELSE SomeCaption(Head(matching).text)

\* min_confidence_threshold, default 0.6
RuleBasedMinConfidence == Rat(3, 5)

\* mutant: a region exactly at the threshold is turned away
BelowThresholdOrAt(confidence_score, threshold) == ~RLess(threshold, confidence_score)

\* line 387: confidence_score < self.min_confidence_threshold
BelowThreshold(confidence_score, threshold) == RLess(confidence_score, threshold)

\* what _process_table_region makes of a region: a Table, or None and why
NoTable(why) == [made |-> FALSE, why |-> why, table |-> None]
MadeTable(t) == [made |-> TRUE, why |-> None, table |-> t]

\* RuleBasedTableExtractor._process_table_region; suffix stands for the
\* uuid4 part of the id
RuleBasedProcessTableRegion(document_id, page_num, region, page_content, suffix) ==
    LET extracted_cells == RuleBasedExtractCells(region)
    IN  IF extracted_cells.cells = << >> THEN NoTable("no cells")
        ELSE IF BelowThreshold(region.confidence, RuleBasedMinConfidence)
        THEN NoTable("confidence")
        ELSE MadeTable([ id |-> <<document_id, page_num, suffix>>,
                         document_id |-> document_id,
                         page_number |-> page_num,
                         cells |-> extracted_cells.cells,
                         num_rows |-> extracted_cells.num_rows,
                         num_cols |-> extracted_cells.num_cols,
                         caption |-> RuleBasedExtractCaption(region, page_content),
                         detection_method |-> RULE_BASED,
                         confidence_score |-> region.confidence,
                         bbox |-> region.bbox ])

\* lines 59-71: the regions of a page, each turned into a Table or skipped
TablesOfRegions(made) ==
    LET kept == SelectSeq(made, LAMBDA m : m.made)
    IN  [ k \in 1..Len(kept) |-> kept[k].table ]

\* RuleBasedTableExtractor._extract_page_tables
RuleBasedExtractPageTables(document_id, page_num, page_content) ==
    LET found == RuleBasedFindTableRegions(page_content)
    IN  IF found.raised # None THEN [raised |-> found.raised, tables |-> << >>]
        ELSE [ raised |-> None,
               tables |-> TablesOfRegions(
                   [ k \in 1..Len(found.regions) |->
                       RuleBasedProcessTableRegion(document_id, page_num,
                                                   found.regions[k], page_content, k) ]) ]

\* lines 36-43 with one page's tables at hand: extend, or let the exception
\* leave the call
RECURSIVE JoinPages(_)
JoinPages(per_page) ==
    IF per_page = << >> THEN [raised |-> None, tables |-> << >>]
    ELSE IF Head(per_page).raised # None
    THEN [raised |-> Head(per_page).raised, tables |-> << >>]
    ELSE LET later == JoinPages(Tail(per_page))
         IN  IF later.raised # None THEN later
             ELSE [raised |-> None, tables |-> Head(per_page).tables \o later.tables]

\* RuleBasedTableExtractor.extract_tables
RuleBasedExtractTables(document_id, content) ==
    LET walked == JoinPages([ k \in 1..Len(content.pages) |->
                                RuleBasedExtractPageTables(document_id, k, content.pages[k]) ])
    IN  IF walked.raised # None
        THEN Outcome("rule_based.extract_tables", walked.raised, << >>)
        ELSE Outcome("rule_based.extract_tables", None, walked.tables)

\* =================================================== DoclingTableExtractor
RECURSIVE SortedSet(_)
\* sorted(positions) for a set of numbers
SortedSet(S) == IF S = {} THEN << >> ELSE <<SetMin(S)>> \o SortedSet(S \ {SetMin(S)})

\* for block in blocks: for text in block.get("text", [])
TextItems(blocks) == Flatten([ k \in 1..Len(blocks) |-> blocks[k].text ])

\* _get_column_positions
GetColumnPositions(blocks) == SortedSet({ item.x : item \in Range(TextItems(blocks)) })

\* _get_row_positions
GetRowPositions(region) == SortedSet({ item.y : item \in Range(TextItems(region.blocks)) })

PositionTolerance == 5

\* lines 131-133: some text of the block is within 5 of some column position
BlockAligned(block, col_positions) ==
    \E item \in Range(block.text), col_pos \in Range(col_positions) :
        Abs(item.x - col_pos) < PositionTolerance

\* _has_consistent_alignment, for a non-empty list of blocks:
\* alignment_count / len(blocks) > 0.7
HasConsistentAlignment(blocks, col_positions) ==
    LET alignment_count ==
            Cardinality({ k \in 1..Len(blocks) : BlockAligned(blocks[k], col_positions) })
    IN  10 * alignment_count > 7 * Len(blocks)

\* _is_implicit_table
IsImplicitTable(element) ==
    /\ element.type = "text"
    /\ Len(element.blocks) >= 2
    /\ LET col_positions == GetColumnPositions(element.blocks)
       IN  Len(col_positions) > 1 /\ HasConsistentAlignment(element.blocks, col_positions)

\* DoclingTableExtractor._find_table_regions
DoclingFindTableRegions(page_content) ==
    [ raised |-> None,
      regions |-> SelectSeq(page_content.layout.elements,
                            LAMBDA e : e.type = "table" \/ IsImplicitTable(e)) ]

\* TableCell with the confidence that the model-driven scores read
ScoredCell(text, row, col, rowspan, colspan, is_header, confidence) ==
    [ text |-> text, row |-> row, col |-> col, rowspan |-> rowspan,
      colspan |-> colspan, is_header |-> is_header, confidence |-> confidence ]

\* _process_cell: a cell whose data TableCell(...) refuses is skipped
ProcessCell(cell_data) ==
    IF cell_data.well_formed
    THEN << ScoredCell(Strip(cell_data.text), cell_data.row, cell_data.col,
                       cell_data.rowspan, cell_data.colspan, cell_data.is_header,
                       cell_data.confidence) >>
    ELSE << >>

\* _get_position_index: 0-based index of the first position closer than 5,
\* else the last index
GetPositionIndex(position, positions) ==
    LET near == { i \in 1..Len(positions) : Abs(position - positions[i]) < PositionTolerance }
    IN  IF near # {} THEN SetMin(near) - 1 ELSE Len(positions) - 1

ImplicitCellConfidence == Rat(4, 5)

\* _process_implicit_table
ProcessImplicitTable(region) ==
    LET row_positions == GetRowPositions(region)
        col_positions == GetColumnPositions(region.blocks)
        items == TextItems(region.blocks)
    IN  [ cells |-> [ k \in 1..Len(items) |->
                        LET row == GetPositionIndex(items[k].y, row_positions)
                            col == GetPositionIndex(items[k].x, col_positions)
                        IN  ScoredCell(Strip(items[k].content), row, col, 1, 1,
                                       row = 0, ImplicitCellConfidence) ],
          num_rows |-> Len(row_positions),
          num_cols |-> Len(col_positions) ]

\* DoclingTableExtractor._extract_cells
DoclingExtractCells(region) ==
    IF region.type = "table"
    THEN LET cells == Flatten([ k \in 1..Len(region.cells) |-> ProcessCell(region.cells[k]) ])
         IN  [ cells |-> cells,
               num_rows |-> SetMax({0} \cup { c.row + c.rowspan : c \in Range(cells) }),
               num_cols |-> SetMax({0} \cup { c.col + c.colspan : c \in Range(cells) }) ]
    ELSE ProcessImplicitTable(region)

\* min(1.0, a / b)
RatioCapped(a, b) == IF a >= b THEN ROne ELSE Rat(a, b)

\* DoclingTableExtractor._calculate_structure_confidence, for cells # []
DoclingStructureConfidence(cells) ==
    LET rows == { c.row : c \in Range(cells) }
        cols == { c.col : c \in Range(cells) }
    IN  RatioCapped(Len(cells), Cardinality(rows) * Cardinality(cols))

\* DoclingTableExtractor._calculate_content_confidence
DoclingContentConfidence(cells) == RMean([ k \in 1..Len(cells) |-> cells[k].confidence ])

\* _calculate_layout_confidence
LayoutConfidence(region) ==
    LET blocks == region.blocks
        col_positions == GetColumnPositions(blocks)
        alignment_score ==
            Cardinality({ k \in 1..Len(blocks) :
                            HasConsistentAlignment(<<blocks[k]>>, col_positions) })
    IN  IF region.type = "table" THEN ROne
        ELSE IF col_positions = << >> THEN Rat(1, 2)
        ELSE RatioCapped(alignment_score, Len(blocks))

\* _calculate_confidence
DoclingConfidence(cells, region) ==
    IF cells = << >> THEN RZero
    ELSE RMean(<< DoclingStructureConfidence(cells), DoclingContentConfidence(cells),
                  LayoutConfidence(region) >>)

\* DoclingTableExtractor._extract_caption
DoclingExtractCaption(region, page_content) ==
    LET matching == SelectSeq(page_content.layout.elements,
                              LAMBDA e : IsCaptionFor(e, region.bbox))
    IN  IF region.caption # None /\ region.caption # << >>
        THEN SomeCaption(region.caption)
        ELSE IF region.bbox = NoBbox THEN NoCaption
        ELSE IF matching = << >> THEN NoCaption
        ELSE SomeCaption(Head(matching).text)

\* the members of the enum by name (models/table.py lines 7-9)
EnumMembers ==
    [ name \in {"DOCLING_DRIVEN", "RULE_BASED", "HYBRID"} |->
        CASE name = "DOCLING_DRIVEN" -> DOCLING_DRIVEN
          [] name = "RULE_BASED" -> RULE_BASED
          [] name = "HYBRID" -> HYBRID ]

\* the member the model-driven extractor names at line 172
DoclingMethodName == "AI_DRIVEN"

\* min_confidence_threshold, default 0.7
DoclingMinConfidence == Rat(7, 10)

\* DoclingTableExtractor._process_table_region: the keyword arguments of
\* Table(...) are evaluated inside the try block, and a name that the enum
\* does not have raises AttributeError there
DoclingProcessTableRegion(document_id, page_num, region, page_content, suffix) ==
    LET extracted_cells == DoclingExtractCells(region)
        confidence_score == DoclingConfidence(extracted_cells.cells, region)
    IN  IF extracted_cells.cells = << >> THEN NoTable("no cells")
        ELSE IF BelowThreshold(confidence_score, DoclingMinConfidence)
        THEN NoTable("confidence")
        ELSE IF DoclingMethodName \notin DOMAIN EnumMembers THEN NoTable("AttributeError")
        ELSE MadeTable([ id |-> <<document_id, page_num, suffix>>,
                         document_id |-> document_id,
                         page_number |-> page_num,
                         cells |-> extracted_cells.cells,
                         num_rows |-> extracted_cells.num_rows,
                         num_cols |-> extracted_cells.num_cols,
                         caption |-> DoclingExtractCaption(region, page_content),
                         detection_method |-> EnumMembers[DoclingMethodName],
                         confidence_score |-> confidence_score,
                         bbox |-> region.bbox ])

\* DoclingTableExtractor._extract_page_tables
DoclingExtractPageTables(document_id, page_num, page_content) ==
    LET found == DoclingFindTableRegions(page_content)
    IN  [ raised |-> None,
          tables |-> TablesOfRegions(
              [ k \in 1..Len(found.regions) |->
                  DoclingProcessTableRegion(document_id, page_num,
                                            found.regions[k], page_content, k) ]) ]

\* DoclingTableExtractor.extract_tables
DoclingExtractTables(document_id, content) ==
    LET walked == JoinPages([ k \in 1..Len(content.pages) |->
                                DoclingExtractPageTables(document_id, k, content.pages[k]) ])
    IN  IF walked.raised # None
        THEN Outcome("docling.extract_tables", walked.raised, << >>)
        ELSE Outcome("docling.extract_tables", None, walked.tables)

\* ====================================================== parsed documents
MaxItems == 3

BlockHeight == 10
RowPitch == 20
\* a missing "font_size" (None); the sizes present are positive
NoSize == -1

\* an element of page["layout"]["elements"]; a key that is missing holds
\* what .get() returns for it without a default
Element(type, text, bbox, font, font_size, blocks, cells, caption) ==
    [ type |-> type, text |-> text, bbox |-> bbox, font |-> font,
      font_size |-> font_size, blocks |-> blocks, cells |-> cells,
      caption |-> caption ]

TextElement(text, x1, x2, top, font, font_size) ==
    Element("text", text, <<x1, top, x2, top + BlockHeight>>, font, font_size,
            << >>, << >>, None)

CellData(text, row, col, confidence, well_formed) ==
    [ text |-> text, row |-> row, col |-> col, rowspan |-> 1, colspan |-> 1,
      is_header |-> row = 0, confidence |-> confidence, well_formed |-> well_formed ]

TextItem(x, y, content) == [x |-> x, y |-> y, content |-> content]

\* what a page is made of, from top to bottom
ItemKinds ==
    { "head", "body", "wide", "touch", "lone", "ragged", "blank", "shift",
      "caption", "grid", "sparse", "implicit" }

\* the elements of one item whose top edge is at y = top
ItemElements(kind, top) ==
    CASE kind = "head" ->
           << TextElement(<<"h">>, 0, 10, top, "bold", 12),
              TextElement(<<"h">>, 20, 30, top, "bold", 12) >>
      [] kind = "body" ->
           << TextElement(<<"a">>, 0, 10, top, "plain", 10),
              TextElement(<<"b">>, 20, 30, top, "plain", 10) >>
      [] kind = "wide" ->
           << TextElement(<<"a">>, 0, 10, top, "plain", 10),
              TextElement(<<"b">>, 20, 30, top, "plain", 10),
              TextElement(<<"b">>, 40, 50, top, "plain", 10) >>
      [] kind = "touch" ->
           << TextElement(<<"a">>, 0, 10, top, "plain", 10),
              TextElement(<<"b">>, 10, 20, top, "plain", 10) >>
      [] kind = "lone" ->
           << TextElement(<<"a", "b">>, 0, 10, top, "plain", 10) >>
      [] kind = "ragged" ->
           << TextElement(<<"a">>, 0, 10, top, "plain", 10),
              TextElement(<<"b">>, 20, 30, top, "plain", 10),
              TextElement(<<"b">>, 60, 70, top, "plain", 10) >>
      [] kind = "blank" ->
           << TextElement(<<" ">>, 0, 10, top, "plain", 10),
              TextElement(<< >>, 20, 30, top, "plain", 10) >>
      [] kind = "shift" ->
           << TextElement(<<"a", "b", "a", "b">>, 40, 50, top, "plain", 10),
              TextElement(<<" ", "b">>, 60, 70, top, "plain", 10) >>
      [] kind = "caption" ->
           << TextElement(<<"T", "a", "b", "l", "e", " ", "1", ":">>, 0, 30, top,
                          "plain", 10) >>
      [] kind = "grid" ->
           << Element("table", << >>, <<0, top, 30, top + BlockHeight>>, None, NoSize,
                      << >>,
                      << CellData(<<"h">>, 0, 0, ROne, TRUE),
                         CellData(<<"h">>, 0, 1, ROne, TRUE),
                         CellData(<<"a", " ">>, 1, 0, ROne, TRUE),
                         CellData(<<"b">>, 1, 1, ROne, TRUE) >>,
                      None) >>
      [] kind = "sparse" ->
           << Element("table", << >>, <<0, top, 30, top + BlockHeight>>, None, NoSize,
                      << >>,
                      << CellData(<<"a">>, 0, 0, Rat(1, 5), TRUE),
                         CellData(<<"b">>, 0, 1, ROne, FALSE),
                         CellData(<<"b">>, 1, 1, Rat(1, 5), TRUE) >>,
                      <<"c">>) >>
      [] kind = "implicit" ->
           << Element("text", << >>, NoBbox, None, NoSize,
                      << [text |-> << TextItem(0, top, <<"a">>),
                                      TextItem(20, top, <<"b">>) >>],
                         [text |-> << TextItem(0, top + 3, <<"a">>),
                                      TextItem(22, top + 10, <<"b">>) >>] >>,
                      << >>, None) >>

PageOf(kinds) ==
    [ layout |->
        [ elements |->
            Flatten([ i \in 1..Len(kinds) |-> ItemElements(kinds[i], RowPitch * (i - 1)) ]) ] ]

\* pages that the documents of more than one page are made of
SamplePages ==
    { PageOf(<<"head", "body">>), PageOf(<<"body", "touch">>), PageOf(<<"grid">>),
      PageOf(<<"body", "body", "caption">>) }

\* pages of three rows of three text blocks: the left and right edges of the
\* three columns, the font size of the first row, and the texts
ColumnLayouts ==
    { << <<0, 10>>, <<20, 30>>, <<40, 50>> >>,
      << <<0, 10>>, <<20, 40>>, <<50, 55>> >>,
      << <<0, 10>>, <<20, 30>>, <<60, 70>> >>,
      << <<0, 10>>, <<10, 20>>, <<20, 30>> >> }

HeaderSizes == {10, 12}

GridTexts == {"short", "long last row", "caption-like"}

GridText(texts, r, c) ==
    CASE texts = "short" -> <<"a">>
      [] texts = "long last row" ->
           IF r = 3 THEN <<"a", "b", "a", "b", "a", "b", "a", "b">> ELSE <<"a">>
      [] texts = "caption-like" ->
           IF r = 2 /\ c = 1 THEN <<"t", "a", "b", "l", "e", " ", ":">> ELSE <<"b">>

GridPage(columns, header_size, texts) ==
    [ layout |->
        [ elements |->
            Flatten([ r \in 1..3 |->
                [ c \in 1..3 |->
                    TextElement(GridText(texts, r, c), columns[c][1], columns[c][2],
                                RowPitch * (r - 1),
                                IF r = 1 THEN "bold" ELSE "plain",
                                IF r = 1 THEN header_size ELSE 10) ] ]) ] ]

GridDocuments ==
    { [pages |-> <<GridPage(columns, header_size, texts)>>] :
        columns \in ColumnLayouts, header_size \in HeaderSizes, texts \in GridTexts }

Documents ==
    { [pages |-> <<PageOf(kinds)>>] : kinds \in SeqsUpTo(ItemKinds, MaxItems) }
    \cup { [pages |-> <<p1, p2>>] : p1 \in SamplePages, p2 \in SamplePages }
    \cup { [pages |-> << >>] }
    \cup GridDocuments

DocumentId == "doc"

\* ------------------------------------------- the service run in one piece
\* extract_tables as a function of what it is given: the registry, the
\* preferred method, what each registered extractor does when asked (ext),
\* the verdicts of its validate_table (vds) and whether the merge step raises
ExtractTablesAlone(reg, pm, ext, vds, fails) ==
    IF \A m \in TableDetectionMethod : reg[m] = NoExtractor
    THEN [raised |-> "ValueError", tables |-> << >>]
    ELSE IF UsePreferred(pm, reg)
    THEN IF ext[pm].status = "raised"
         THEN [raised |-> "Exception", tables |-> << >>]
         ELSE [raised |-> None, tables |-> ValidateTables(ext[pm].tables, vds[pm])]
    ELSE LET docling ==
                 IF Registered(reg, DOCLING_DRIVEN) /\ ext[DOCLING_DRIVEN].status = "returned"
                 THEN ValidateTables(ext[DOCLING_DRIVEN].tables, vds[DOCLING_DRIVEN])
                 ELSE << >>
             rule ==
                 IF ShouldRunRuleBased(docling, reg) /\ ext[RULE_BASED].status = "returned"
                 THEN ValidateTables(ext[RULE_BASED].tables, vds[RULE_BASED])
                 ELSE << >>
         IN  [ raised |-> None,
               tables |-> IF fails THEN MergeFallback(docling, rule)
                          ELSE MergeTableResults(docling, rule) ]

\* the two extractors of the package, registered under their own tags
RuleBasedInstance == "RuleBasedTableExtractor"
DoclingInstance == "DoclingTableExtractor"

PackageRegistry ==
    [ m \in TableDetectionMethod |->
        IF m = RULE_BASED THEN RuleBasedInstance
        ELSE IF m = DOCLING_DRIVEN THEN DoclingInstance
        ELSE NoExtractor ]

\* an outcome of extract_tables, as the service sees it
AsExtractOutcome(out) == IF out.raised # None THEN Raised ELSE Returned(out.value)

\* an outcome of validate_table, as the service sees it
AsVerdict(out) == IF out.raised # None THEN "raise" ELSE IF out.value THEN "true" ELSE "false"

\* TableExtractionService.extract_tables with the package's extractors:
\* rule_out and docling_out are what the two instances do when asked for the
\* tables of the document; each instance gives the verdicts on its own tables
PackageExtractTables(reg, pm, rule_out, docling_out) ==
    LET rule_vs == [ k \in 1..Len(rule_out.tables) |->
                       AsVerdict(RuleBasedValidateTable(rule_out.tables[k])) ]
        docling_vs == [ k \in 1..Len(docling_out.tables) |->
                          AsVerdict(DoclingValidateTable(docling_out.tables[k])) ]
        ext == [ m \in TableDetectionMethod |->
                   IF reg[m] = RuleBasedInstance THEN rule_out
                   ELSE IF reg[m] = DoclingInstance THEN docling_out
                   ELSE NotCalled ]
        vds == [ m \in TableDetectionMethod |->
                   IF reg[m] = RuleBasedInstance THEN rule_vs
                   ELSE IF reg[m] = DoclingInstance THEN docling_vs
                   ELSE << >> ]
        done == ExtractTablesAlone(reg, pm, ext, vds, FALSE)
    IN  Outcome("service.extract_tables", done.raised, done.tables)

\* ----------------------------------------- the extractors called on documents
ExtractorInit ==
    /\ extractors = PackageRegistry
    /\ pc = "document"
    /\ NoCall
    /\ table = None
    /\ parsed_content \in Documents
    /\ result = NoResult
    /\ suspended = NoFrame

\* await RuleBasedTableExtractor().extract_tables(document_id, parsed_content)
RuleBasedExtractCall ==
    /\ pc = "document"
    /\ result' = RuleBasedExtractTables(DocumentId, parsed_content)
    /\ pc' = "returned"
    /\ UNCHANGED <<extractors, locals, suspended, table, parsed_content>>

\* await DoclingTableExtractor().extract_tables(document_id, parsed_content)
DoclingExtractCall ==
    /\ pc = "document"
    /\ result' = DoclingExtractTables(DocumentId, parsed_content)
    /\ pc' = "returned"
    /\ UNCHANGED <<extractors, locals, suspended, table, parsed_content>>

\* await service.extract_tables(document_id, parsed_content, preferred_method)
ServiceExtractCall ==
    /\ pc = "document"
    /\ \E pm \in TableDetectionMethod \cup {None},
          rule_out \in
              { AsExtractOutcome(RuleBasedExtractTables(DocumentId, parsed_content)) },
          docling_out \in
              { AsExtractOutcome(DoclingExtractTables(DocumentId, parsed_content)) } :
          result' = PackageExtractTables(extractors, pm, rule_out, docling_out)
    /\ pc' = "returned"
    /\ UNCHANGED <<extractors, locals, suspended, table, parsed_content>>

\* the implicit table regions of the document, in the order in which
\* _extract_page_tables meets them
ImplicitRegions(content) ==
    Flatten([ p \in 1..Len(content.pages) |->
        SelectSeq(DoclingFindTableRegions(content.pages[p]).regions,
                  LAMBDA e : e.type # "table") ])

\* cells, max_row, max_col = await self._process_implicit_table(region), for
\* a region of the document; the outcome keeps the region with what is
\* returned
ProcessImplicitTableCall ==
    /\ pc = "document"
    /\ \E region \in Range(ImplicitRegions(parsed_content)) :
          \E found \in {ProcessImplicitTable(region)} :
             result' = Outcome("docling._process_implicit_table", None,
                               [ region |-> region, cells |-> found.cells,
                                 num_rows |-> found.num_rows,
                                 num_cols |-> found.num_cols ])
    /\ pc' = "returned"
    /\ UNCHANGED <<extractors, locals, suspended, table, parsed_content>>

ExtractorNext ==
    \/ ProcessImplicitTableCall
    \/ RuleBasedExtractCall
    \/ DoclingExtractCall
    \/ ServiceExtractCall

ExtractorSpec == ExtractorInit /\ [][ExtractorNext]_vars

\* ------------------------------------- pages of loosely placed text blocks
MaxBlocks == 4

\* top edges around the tolerance of 5, and left edges
BlockTops == {0, 5, 6, 10}
BlockLefts == {0, 20}

LooseBlock(top, left) ==
    TextElement(IF left = 0 THEN <<"a">> ELSE <<"b">>, left, left + 10, top, "plain", 10)

LooseDocuments ==
    { [pages |-> << [layout |-> [elements |-> elements]] >>] :
        elements \in SeqsUpTo({ LooseBlock(top, left) : top \in BlockTops,
                                                        left \in BlockLefts },
                              MaxBlocks) }

\* pages of RunLength items from top to bottom, each a row of two blocks or
\* a single block
RunLength == 7

RunDocuments ==
    { [pages |-> <<PageOf(kinds)>>] :
        kinds \in [1..RunLength -> {"body", "lone"}] }

LayoutInit ==
    /\ extractors = PackageRegistry
    /\ pc = "document"
    /\ NoCall
    /\ table = None
    /\ parsed_content \in LooseDocuments \cup RunDocuments
    /\ result = NoResult
    /\ suspended = NoFrame

\* lines 87-90: blocks = self._get_text_blocks(layout), then
\* rows = self._group_blocks_into_rows(blocks)
GroupBlocksCall ==
    /\ pc = "document"
    /\ result' = Outcome("rule_based._group_blocks_into_rows", None,
                         GroupBlocksIntoRows(GetTextBlocks(parsed_content.pages[1].layout)))
    /\ pc' = "returned"
    /\ UNCHANGED <<extractors, locals, suspended, table, parsed_content>>

\* regions = self._find_table_regions(page_content)
FindTableRegionsCall ==
    /\ pc = "document"
    /\ \E found \in {RuleBasedFindTableRegions(parsed_content.pages[1])} :
          result' = Outcome("rule_based._find_table_regions", found.raised, found.regions)
    /\ pc' = "returned"
    /\ UNCHANGED <<extractors, locals, suspended, table, parsed_content>>

LayoutNext ==
    \/ GroupBlocksCall
    \/ FindTableRegionsCall
    \/ RuleBasedExtractCall

LayoutSpec == LayoutInit /\ [][LayoutNext]_vars

\* ------------------------------------------------ properties: extractors
ReturnedTables == IF result.raised = None THEN Range(result.value) ELSE {}

\* C12: with the rule-based and the model-driven extractor registered, every
\* table that the service returns has all its cells inside the grid, and no
\* two of its cells occupy a common position.
C12_ReturnedCellsInsideAndDisjoint ==
    Called("service.extract_tables")
    => \A t \in ReturnedTables :
          /\ \A k \in CellIndexes(t) :
                /\ 0 <= t.cells[k].row /\ t.cells[k].row < t.num_rows
                /\ 0 <= t.cells[k].col /\ t.cells[k].col < t.num_cols
          /\ \A k1, k2 \in CellIndexes(t) :
                k1 # k2 => Occupied(t.cells[k1]) \cap Occupied(t.cells[k2]) = {}

\* the service returned a table of two rows of three cells
C12_Witness ==
    /\ Called("service.extract_tables")
    /\ \E t \in ReturnedTables :
          t.num_rows = 2 /\ t.num_cols = 3 /\ Len(t.cells) = 6

\* C13: extract_tables of either extractor does not raise when a region of a
\* page is malformed (here: a row of blocks whose mean horizontal gap is zero).
C13_BadRegionDoesNotRaise ==
    (Called("rule_based.extract_tables") \/ Called("docling.extract_tables"))
    => result.raised = None

AtLeast(confidence_score, threshold) == ~RLess(confidence_score, threshold)

\* no region of the document that reaches the threshold and has a cell is
\* turned away for its confidence by the rule-based extractor
RuleBasedKeepsConfidentRegions(content, threshold) ==
    \A p \in 1..Len(content.pages) :
        LET found == RuleBasedFindTableRegions(content.pages[p])
        IN  found.raised = None
            => \A k \in 1..Len(found.regions) :
                  LET region == found.regions[k]
                  IN  (/\ AtLeast(region.confidence, threshold)
                       /\ RuleBasedExtractCells(region).cells # << >>)
                      => RuleBasedProcessTableRegion(DocumentId, p, region,
                                                     content.pages[p], k).why # "confidence"

\* the same for the model-driven extractor
DoclingKeepsConfidentRegions(content, threshold) ==
    \A p \in 1..Len(content.pages) :
        LET found == DoclingFindTableRegions(content.pages[p])
        IN  \A k \in 1..Len(found.regions) :
                LET region == found.regions[k]
                    cells == DoclingExtractCells(region).cells
                IN  (/\ cells # << >>
                     /\ AtLeast(DoclingConfidence(cells, region), threshold))
                    => DoclingProcessTableRegion(DocumentId, p, region,
                                                 content.pages[p], k).why # "confidence"

\* C20: every table that an extractor returns has a confidence_score of at
\* least the extractor's threshold (0.6 rule-based, 0.7 model-driven), and a
\* region that reaches the threshold and has a cell is not turned away for
\* its confidence.
C20_ThresholdGate ==
    /\ Called("rule_based.extract_tables")
       => /\ \A t \in ReturnedTables : AtLeast(t.confidence_score, Rat(6, 10))
          /\ RuleBasedKeepsConfidentRegions(parsed_content, Rat(6, 10))
    /\ Called("docling.extract_tables")
       => /\ \A t \in ReturnedTables : AtLeast(t.confidence_score, Rat(7, 10))
          /\ DoclingKeepsConfidentRegions(parsed_content, Rat(7, 10))

\* the rule-based extractor returned a table whose confidence is exactly 0.6
C20_Witness ==
    /\ Called("rule_based.extract_tables")
    /\ \E t \in ReturnedTables : t.confidence_score = Rat(6, 10) /\ t.num_cols = 3

\* ------------------------------------------------ properties: two calls
\* what a call with the given frame returns when it runs alone, given what
\* its extractors and the merge step did
AloneResult(frame) ==
    ExtractTablesAlone(extractors, frame.preferred_method, frame.extracted,
                       frame.verdicts, frame.merge_raised)

FrameResult(frame) == [raised |-> frame.raised, tables |-> frame.tables]

\* C15: when two extract_tables calls on one service are interleaved at their
\* awaits, a call that has finished has raised or returned what it raises or
\* returns when run alone with the same extractor, validator and merge
\* outcomes, and no step of either call changes the registry.
C15_InterleavedAsAlone ==
    /\ [](/\ pc = "done" => FrameResult(Running) = AloneResult(Running)
          /\ suspended.pc = "done" => FrameResult(suspended) = AloneResult(suspended))
    /\ [][extractors' = extractors]_vars

\* one call has returned tables while the other, started before the first
\* finished, waits with tables of its own still to validate
C15_Witness ==
    /\ pc = "done" /\ raised = None /\ tables # << >>
    /\ suspended.pc = "docling_validate"
    /\ suspended.docling_tables # << >>
    /\ suspended.docling_tables # tables

\* ------------------------------------------ properties: model-driven tables
\* the document is one page that holds one explicit table element and
\* nothing else; every cell of the element is well-formed and the confidence
\* of the region reaches the threshold
OneExplicitTable(content) ==
    /\ Len(content.pages) = 1
    /\ Len(content.pages[1].layout.elements) = 1
    /\ LET region == content.pages[1].layout.elements[1]
       IN  /\ region.type = "table"
           /\ region.cells # << >>
           /\ \A k \in 1..Len(region.cells) : region.cells[k].well_formed
           /\ AtLeast(DoclingConfidence(DoclingExtractCells(region).cells, region),
                      Rat(7, 10))

\* C21: for a page with one explicit table element of well-formed cells whose
\* confidence reaches the threshold, the model-driven extract_tables returns
\* exactly one Table, with one cell per supplied cell,
\* num_rows = max(row + rowspan), num_cols = max(col + colspan) and the
\* detection method "docling_driven".
C21_ExplicitTableReturned ==
    (Called("docling.extract_tables") /\ OneExplicitTable(parsed_content))
    => /\ result.raised = None
       /\ Len(result.value) = 1
       /\ LET region == parsed_content.pages[1].layout.elements[1]
              t == result.value[1]
          IN  /\ Len(t.cells) = Len(region.cells)
              /\ t.num_rows = SetMax({ c.row + c.rowspan : c \in Range(region.cells) })
              /\ t.num_cols = SetMax({ c.col + c.colspan : c \in Range(region.cells) })
              /\ t.detection_method = DOCLING_DRIVEN

\* ------------------------------------------- properties: rule-based tables
\* the elements of a one-page document
Elements(content) == content.pages[1].layout.elements

\* element of row r, column c (1-based) of a page of three rows of three
GridElement(content, r, c) == Elements(content)[3 * (r - 1) + c]

\* one page of 3 aligned rows of 3 text blocks: the same x-positions in every
\* row, one font and one size in the two body rows, and a header font that
\* the body does not have
RegularGrid(content) ==
    /\ Len(content.pages) = 1
    /\ Len(Elements(content)) = 9
    /\ \A k \in 1..9 : Elements(content)[k].type = "text" /\ HasBbox(Elements(content)[k])
    /\ \A r \in 1..3, c \in 1..3 :
          /\ GridElement(content, r, c).bbox[2] = GridElement(content, r, 1).bbox[2]
          /\ GridElement(content, r, c).bbox[1] = GridElement(content, 1, c).bbox[1]
          /\ GridElement(content, r, c).bbox[3] = GridElement(content, 1, c).bbox[3]
    /\ \A r \in 1..2 :
          GridElement(content, r + 1, 1).bbox[2] - GridElement(content, r, 1).bbox[2]
              > YTolerance
    /\ \A r \in 2..3, c \in 1..3 :
          /\ GridElement(content, r, c).font = GridElement(content, 2, 1).font
          /\ GridElement(content, r, c).font_size = GridElement(content, 2, 1).font_size
    /\ \A c \in 1..3 : GridElement(content, 1, c).font # GridElement(content, 2, 1).font

\* exactly one table, 3 x 3, of 9 cells, with a confidence of at least 0.7
\* and is_header on exactly the cells of row 0
OneThreeByThreeTable ==
    /\ result.raised = None
    /\ Len(result.value) = 1
    /\ LET t == result.value[1]
       IN  /\ t.num_rows = 3 /\ t.num_cols = 3 /\ Len(t.cells) = 9
           /\ AtLeast(t.confidence_score, Rat(7, 10))
           /\ \A k \in CellIndexes(t) : t.cells[k].is_header <=> t.cells[k].row = 0

EqualPositiveGaps(content) ==
    LET gap(c) == GridElement(content, 1, c + 1).bbox[1] - GridElement(content, 1, c).bbox[3]
    IN  gap(1) = gap(2) /\ gap(1) > 0

\* the header font size is not a font size of the body
HeaderSizeDistinct(content) ==
    \A c \in 1..3 : GridElement(content, 1, c).font_size # GridElement(content, 2, 1).font_size

\* no text starts with "table " and holds a colon
NoCaptionLikeText(content) ==
    \A k \in 1..Len(Elements(content)) : ~LooksLikeCaption(Elements(content)[k])

Count(seq, x) == Cardinality({ k \in 1..Len(seq) : seq[k] = x })

\* C23: _group_blocks_into_rows puts every block in exactly one row; the
\* blocks are in ascending order of their top edge; every block of a row is
\* within 5 units (inclusive) of the top edge of the first block of its row;
\* and the first block of a row is more than 5 units from the first block of
\* the row before it.
C23_RowsAnchoredAtFirstBlock ==
    Called("rule_based._group_blocks_into_rows")
    => LET blocks == GetTextBlocks(parsed_content.pages[1].layout)
           rows == result.value
           placed == Flatten(rows)
       IN  /\ \A b \in Range(blocks) \cup Range(placed) :
                 Count(placed, b) = Count(blocks, b)
           /\ \A k \in 1..(Len(placed) - 1) : Y1(placed[k]) <= Y1(placed[k + 1])
           /\ \A r \in 1..Len(rows) :
                 /\ rows[r] # << >>
                 /\ \A k \in 1..Len(rows[r]) :
                       Abs(Y1(rows[r][k]) - Y1(rows[r][1])) <= 5
           /\ \A r \in 1..(Len(rows) - 1) :
                 Abs(Y1(rows[r + 1][1]) - Y1(rows[r][1])) > 5

\* blocks at 0, 5 and 10: the block at 5 joins the row opened at 0 (exactly
\* at the tolerance), the block at 10 opens a row though it is within 5 of
\* the block before it
C23_Witness ==
    /\ Called("rule_based._group_blocks_into_rows")
    /\ Len(result.value) = 2
    /\ Len(result.value[1]) = 2
    /\ Y1(result.value[1][1]) = 0 /\ Y1(result.value[1][2]) = 5
    /\ Y1(result.value[2][1]) = 10

\* ------------------------------------------- properties: columns of a row
\* C30: in every table that RuleBasedTableExtractor.extract_tables returns,
\* within each row a cell with a smaller column index comes from a block
\* that does not lie to the right of the block of a cell with a larger one.
C30_ColumnsFollowLeftEdge ==
    Called("rule_based.extract_tables")
    => \A t \in ReturnedTables :
          \A k1, k2 \in CellIndexes(t) :
             (t.cells[k1].row = t.cells[k2].row /\ t.cells[k1].col < t.cells[k2].col)
             => X1(t.cells[k1]) <= X1(t.cells[k2])

\* --------------------------------------------- properties: regions of a page
\* the rows of the page of the document, as _find_table_regions sees them
PageRows == GroupBlocksIntoRows(GetTextBlocks(parsed_content.pages[1].layout))

TableLike(r) == IsPotentialTableRow(PageRows[r]) = "true"

\* the maximal runs of consecutive table-like rows that have two rows or more
LongRuns ==
    { run \in (1..Len(PageRows)) \X (1..Len(PageRows)) :
        /\ run[1] < run[2]
        /\ \A r \in run[1]..run[2] : TableLike(r)
        /\ run[1] = 1 \/ ~TableLike(run[1] - 1)
        /\ run[2] = Len(PageRows) \/ ~TableLike(run[2] + 1) }

\* C24: when _find_table_regions returns, its regions are the maximal runs of
\* two or more consecutive table-like rows of the page, one region per run in
\* page order, each holding exactly the rows of its run.
C24_RegionsAreLongRuns ==
    (Called("rule_based._find_table_regions") /\ result.raised = None)
    => /\ Len(result.value) = Cardinality(LongRuns)
       /\ \A k \in 1..Len(result.value) :
             \E run \in LongRuns :
                /\ result.value[k].rows = SubSeq(PageRows, run[1], run[2])
                /\ k = 1 + Cardinality({ other \in LongRuns : other[1] < run[1] })

\* a page with two regions, apart by a row that is not table-like, and a
\* lone table-like row that became no region
C24_Witness ==
    /\ Called("rule_based._find_table_regions")
    /\ result.raised = None
    /\ Len(result.value) = 2
    /\ \E r \in 1..Len(PageRows) :
          /\ TableLike(r)
          /\ r = 1 \/ ~TableLike(r - 1)
          /\ r = Len(PageRows) \/ ~TableLike(r + 1)

\* ------------------------------------------ properties: implicit tables
\* C25: _process_implicit_table gives the cell of every text item the row
\* index of the item's own y in the sorted distinct y-positions of the region
\* and the column index of the item's own x in the sorted distinct
\* x-positions (the nearest entry, at distance 0).
C25_ItemsGetOwnPosition ==
    Called("docling._process_implicit_table")
    => LET region == result.value.region
           items == TextItems(region.blocks)
           cells == result.value.cells
       IN  /\ Len(cells) = Len(items)
           /\ \A k \in 1..Len(items) :
                 /\ GetRowPositions(region)[cells[k].row + 1] = items[k].y
                 /\ GetColumnPositions(region.blocks)[cells[k].col + 1] = items[k].x

\* ------------------------------ _merge_table_results on overlapping tables
\* boxes of which the large one overlaps the other two, which are apart
OverlapBboxes == {NoBbox, BoxSmall, BoxLarge, BoxInner}

OverlapInit ==
    /\ extractors = [m \in TableDetectionMethod |-> NoExtractor]
    /\ pc = "merge_direct"
    /\ preferred_method = None
    /\ extractor = NoExtractor
    /\ \E tpls \in SeqsUpTo([confidence_score : DoclingConfidences, bbox : OverlapBboxes],
                             MaxDoclingIn) :
          docling_tables = MkTables(DOCLING_DRIVEN, tpls)
    /\ \E tpls \in SeqsUpTo([confidence_score : RuleConfidences, bbox : OverlapBboxes],
                             MaxRuleIn) :
          rule_based_tables = MkTables(RULE_BASED, tpls)
    /\ tables = << >>
    /\ raised = None
    /\ merge_raised = FALSE
    /\ calls = << >>
    /\ extracted = [m \in TableDetectionMethod |-> NotCalled]
    /\ verdicts = [m \in TableDetectionMethod |-> << >>]
    /\ NoObjects
    /\ suspended = NoFrame

OverlapSpec == OverlapInit /\ [][MergeNext]_vars

\* ------------------------------------- properties: which of two is kept
MergeInputs == Range(docling_tables) \cup Range(rule_based_tables)

\* kept is in the merged result, dropped is not, and their bboxes overlap
KeptOver(kept, dropped) ==
    /\ HasBbox(kept) /\ HasBbox(dropped)
    /\ Intersects(kept.bbox, dropped.bbox)
    /\ InResult(kept) /\ ~InResult(dropped)

\* C26 as stated: of two input tables with overlapping bboxes of which only
\* one is in the merged result, the one kept does not have the lower
\* confidence_score, whichever strategy produced it.
C26_KeptHasHigherConfidence ==
    pc = "merged" =>
      \A kept, dropped \in MergeInputs :
         KeptOver(kept, dropped) => kept.confidence_score >= dropped.confidence_score

\* a table that stands in the way of t in the result: it overlaps t or has
\* the integer key of t
Blocks(other, t) ==
    /\ InResult(other) /\ HasBbox(other)
    /\ Intersects(other.bbox, t.bbox) \/ BboxToKey(other.bbox) = BboxToKey(t.bbox)

Trusted(t) == t.detection_method = DOCLING_DRIVEN /\ t.confidence_score >= 80

\* C26 amended: of two input tables with overlapping bboxes of which only one
\* is in the merged result, the one kept does not have the lower
\* confidence_score, unless it is a model-driven table with confidence >= 0.8,
\* or a third table of the result stands in the way of the dropped one and is
\* itself a model-driven table with confidence >= 0.8 or has a confidence not
\* below the dropped one's.
C26_KeptHigherUnlessTrusted ==
    pc = "merged" =>
      \A kept, dropped \in MergeInputs :
         KeptOver(kept, dropped) =>
            \/ kept.confidence_score >= dropped.confidence_score
            \/ Trusted(kept)
            \/ \E third \in MergeInputs \ {kept} :
                  /\ Blocks(third, dropped)
                  /\ Trusted(third) \/ third.confidence_score >= dropped.confidence_score

\* a rule-based table at 0.95 is kept over the model-driven table at 0.7 that
\* it overlaps
C26_Witness ==
    /\ pc = "merged"
    /\ Len(docling_tables) = 1 /\ Len(rule_based_tables) = 1
    /\ docling_tables[1].confidence_score = 70
    /\ rule_based_tables[1].confidence_score = 95
    /\ KeptOver(rule_based_tables[1], docling_tables[1])

\* ------------------------------------ properties: one strategy per result
\* the tag under which the extractor that produced t was invoked
ProducedUnder(t) == t.id[1]

\* C27: a call without a usable preferred_method returns exactly the validated
\* model-driven list or exactly the validated rule-based list, in the
\* extractor's order, and never tables of both strategies.
C27_OneStrategyUnchanged ==
    (pc = "done" /\ DefaultPath) =>
      /\ \/ tables = ValidatedOutput(DOCLING_DRIVEN)
         \/ tables = ValidatedOutput(RULE_BASED)
      /\ \A t1, t2 \in Range(tables) : ProducedUnder(t1) = ProducedUnder(t2)

\* two validated rule-based tables that overlap, the lower confidence first,
\* are returned as they are after the model-driven table was turned away
C27_Witness ==
    /\ pc = "done"
    /\ DefaultPath
    /\ verdicts[DOCLING_DRIVEN] = <<"false">>
    /\ verdicts[RULE_BASED] = <<"true", "true">>
    /\ tables = extracted[RULE_BASED].tables
    /\ tables[1].confidence_score < tables[2].confidence_score
    /\ Intersects(tables[1].bbox, tables[2].bbox)

\* ------------------------------------------- properties: the hybrid tag
IsExtractorCall(c) == c.op \in {"extract_tables", "validate_table"}

OnlyHybridRegistered ==
    IsRegistered(HYBRID) /\ ~IsRegistered(DOCLING_DRIVEN) /\ ~IsRegistered(RULE_BASED)

C29_ReturnedTablesValidate ==
    Called("rule_based.extract_tables")
    => \A t \in ReturnedTables : RuleBasedValidateTable(t).value = TRUE

====
